---- MODULE Spec2Model ----
(***************************************************************************)
(* Model of pkg/deployment/ipam.go of the dataplane operator: the IP       *)
(* reservation pipeline (reserveIPs, EnsureIPSets) and the DNS pipeline    *)
(* (CheckDNSService, createOrPatchDNSData, EnsureDNSData) of one NodeSet,  *)
(* run against an object store that other controllers change between the  *)
(* calls.                                                                  *)
(*                                                                         *)
(* Strings that the code splits or joins on "." (host names, DNS domains)  *)
(* are sequences of labels: "edpm-1.example.com" is                        *)
(* <<"edpm-1", "example", "com">>.  The uninitialised Go string "" is the  *)
(* empty sequence.  A Go slice or map that may be nil is a record          *)
(* [isNil, items].                                                         *)
(***************************************************************************)
EXTENDS Integers, Sequences, FiniteSets, TLC

VARIABLES
    nodeset,      \* instance.Spec: [Nodes, TemplateNetworks]
    conditions,   \* instance.Status.Conditions, by condition type
    netConfigs,   \* number of NetConfig objects in the namespace
    ipsets,       \* IPSet objects of the namespace, by name
    dnsmasqs,     \* DNSMasq objects of the namespace, in List order
    dnsdata,      \* the DNSData object named after the instance
    dns,          \* the DataplaneDNSData receiver
    pc,           \* position of the caller inside a pass
    ipCall,       \* what the last EnsureIPSets call did and returned
    dnsCall,      \* what the last EnsureDNSData call did and returned
    passes,       \* number of passes started
    envSteps,     \* number of changes made by other controllers
    builders      \* concurrent createOrPatchDNSData calls, step by step

vars == <<nodeset, conditions, netConfigs, ipsets, dnsmasqs, dnsdata, dns,
          pc, ipCall, dnsCall, passes, envSteps, builders>>

----------------------------------------------------------------------------
(* Bounds *)

\* passes started by the caller in one behaviour
MaxPasses == 2
\* changes made by the other controllers of the store in one behaviour
MaxEnvSteps == 1
\* createOrPatchDNSData calls that run at the same time on one NodeSet
MaxBuilders == 2

----------------------------------------------------------------------------
(* Values *)

EmptyString == <<>>
EmptyMap == [x \in {} |-> EmptyString]
Put(f, k, v) == [x \in (DOMAIN f) \cup {k} |-> IF x = k THEN v ELSE f[x]]

NilSlice == [isNil |-> TRUE, items |-> <<>>]
Slice(s) == [isNil |-> FALSE, items |-> s]
NilMap == [isNil |-> TRUE, items |-> EmptyMap]
MakeMap(f) == [isNil |-> FALSE, items |-> f]
MapLen(m) == Cardinality(DOMAIN m.items)

NilError == "nil"

\* the designated control-plane network
CtlPlaneNetwork == "ctlplane"

\* strings.ToLower on the network names of the model
ToLower(n) == IF n = "CtlPlane" THEN "ctlplane" ELSE n

\* strings.Split(hostName, ".")[0]
ShortName(hostName) == hostName[1]

\* strings.Join([]string{shortName, dnsDomain}, "."), dnsDomain not empty
JoinFQDN(shortName, dnsDomain) == <<shortName>> \o dnsDomain

\* a host name is fully qualified when it contains a domain separator
NodeHostNameIsFQDN(hostName) == Len(hostName) > 1

HostNamePool == {<<"edpm-0">>, <<"edpm-1", "example", "com">>}
Domains == {<<"example", "com">>, <<"example", "org">>}
NetLists == {<<>>, <<"ctlplane", "CtlPlane">>}
TemplateNetLists == {<<>>, <<"internalapi">>}

Range(s) == {s[i] : i \in DOMAIN s}
Orders(S) == {s \in [1..Cardinality(S) -> S] : Range(s) = S}

\* instance.Spec of the NodeSet: nodes in order, with distinct host names
NodeLists ==
    UNION {{ns \in [1..n -> [HostName : HostNamePool, Networks : NetLists]] :
              \A i, j \in 1..n : i # j => ns[i].HostName # ns[j].HostName} :
           n \in 0..Cardinality(HostNamePool)}
NodeSetSpecs == [Nodes : NodeLists, TemplateNetworks : TemplateNetLists]

----------------------------------------------------------------------------
(* instance.Status.Conditions: upsert by type, last write wins *)

NodeSetIPReservationReadyCondition == "NodeSetIPReservationReady"
NodeSetDNSDataReadyCondition == "NodeSetDNSDataReady"

NoCondition == [present |-> FALSE, status |-> "", reason |-> "", severity |-> ""]

MarkFalse(conds, t, reason, severity) ==
    [conds EXCEPT ![t] = [present |-> TRUE, status |-> "False",
                          reason |-> reason, severity |-> severity]]
\* MarkTrue leaving the condition as it is
MarkTrueLeavesCondition(conds, t) == conds

MarkTrue(conds, t) ==
    [conds EXCEPT ![t] = [present |-> TRUE, status |-> "True",
                          reason |-> "Ready", severity |-> ""]]
Remove(conds, t) == [conds EXCEPT ![t] = NoCondition]

\* the four-valued state a condition record stands for
CondState(c) ==
    IF ~c.present THEN "NotApplicable"
    ELSE IF c.status = "True" THEN "Ready"
    ELSE IF c.reason = "Error" /\ c.severity = "Error" THEN "Error"
    ELSE IF c.reason = "Requested" /\ c.severity = "Info" THEN "Waiting"
    ELSE "Other"

----------------------------------------------------------------------------
(* Objects of the store *)

Parent == "nodeset"

NoIPSet == [exists |-> FALSE, Networks |-> <<>>, owner |-> "",
            Ready |-> "Unset", Reservation |-> <<>>]
NoDNSData == [exists |-> FALSE, Hosts |-> <<>>, label |-> "", owner |-> "",
              Ready |-> FALSE]

\* s.Status.Conditions.IsTrue(condition.ReadyCondition)
IsTrue(s) == s.Ready = "True"
\* s.Status.Conditions.IsFalse(condition.ReadyCondition)
IsFalse(s) == s.Ready = "False"

\* CreateOrPatchIPSet patching an existing object whether or not the
\* mutation changes it
CreateOrPatchIPSetAlwaysPatches(obj, nets) ==
    IF ~obj.exists
    THEN [obj |-> [NoIPSet EXCEPT !.exists = TRUE, !.Networks = nets,
                                  !.owner = Parent],
          op |-> "created"]
    ELSE [obj |-> [obj EXCEPT !.Networks = nets, !.owner = Parent],
          op |-> "updated"]

\* controllerutil.CreateOrPatch of an IPSet whose mutate callback sets
\* Spec.Networks and the controller reference: creates the object when it
\* is missing, writes nothing when the mutation changes nothing, patches
\* otherwise.  The status of an existing object is kept.
CreateOrPatchIPSet(obj, nets) ==
    IF ~obj.exists
    THEN [obj |-> [NoIPSet EXCEPT !.exists = TRUE, !.Networks = nets,
                                  !.owner = Parent],
          op |-> "created"]
    ELSE IF obj.Networks = nets /\ obj.owner = Parent
    THEN [obj |-> obj, op |-> "unchanged"]
    ELSE [obj |-> [obj EXCEPT !.Networks = nets, !.owner = Parent],
          op |-> "updated"]

\* EffectiveNetworks without the fall-back to the template
EffectiveNetworksNoTemplate(spec, node) == node.Networks

\* nets := node.Networks; if len(nets) == 0 { nets = NodeTemplate.Networks }
EffectiveNetworks(spec, node) ==
    IF Len(node.Networks) = 0 THEN spec.TemplateNetworks ELSE node.Networks

\* one call of helper.GetClient() or controllerutil on the store, as the
\* functions log them in the order they make them: the verb, the kind and
\* the name of the object, what the call did and the error it returned
StoreCall(verb, kind, name, op, err) ==
    [verb |-> verb, kind |-> kind, name |-> name, op |-> op, err |-> err]

----------------------------------------------------------------------------
(* reserveIPs *)

\* ReserveLoop going on to the next node after a CreateOrPatch failed
RECURSIVE ReserveLoopContinues(_, _, _, _)
ReserveLoopContinues(spec, i, failIdx, acc) ==
    IF i > Len(spec.Nodes) THEN acc
    ELSE LET node == spec.Nodes[i]
             nets == EffectiveNetworks(spec, node)
             hostName == node.HostName
         IN  IF Len(nets) > 0
             THEN IF i = failIdx
                  THEN ReserveLoopContinues(spec, i + 1, failIdx,
                         [acc EXCEPT !.ipamUsed = TRUE,
                                     !.err = "CreateOrPatchIPSetError",
                                     !.upserts = Append(@, hostName),
                                     !.calls = Append(@,
                                         StoreCall("CreateOrPatch", "IPSet", hostName,
                                                   "failed", "CreateOrPatchIPSetError"))])
                  ELSE LET r == CreateOrPatchIPSet(acc.store[hostName], nets)
                       IN  ReserveLoopContinues(spec, i + 1, failIdx,
                             [acc EXCEPT !.ipamUsed = TRUE,
                                !.store = [@ EXCEPT ![hostName] = r.obj],
                                !.m = Put(@, hostName, r.obj),
                                !.upserts = Append(@, hostName),
                                !.calls = Append(@,
                                    StoreCall("CreateOrPatch", "IPSet", hostName,
                                              r.op, NilError)),
                                !.writes = @ + (IF r.op = "unchanged" THEN 0 ELSE 1)])
             ELSE ReserveLoopContinues(spec, i + 1, failIdx, acc)

\* The loop over instance.Spec.Nodes from node i on.  acc holds the store,
\* the map built so far, ipamUsed, the error, the names upserted and the
\* number of writes.  failIdx is the index of the node whose CreateOrPatch
\* fails (0: none fails).
RECURSIVE ReserveLoop(_, _, _, _)
ReserveLoop(spec, i, failIdx, acc) ==
    IF i > Len(spec.Nodes) THEN acc
    ELSE LET node == spec.Nodes[i]
             nets == EffectiveNetworks(spec, node)
             hostName == node.HostName
         IN  IF Len(nets) > 0
             THEN IF i = failIdx
                  THEN [acc EXCEPT !.ipamUsed = TRUE,
                                   !.err = "CreateOrPatchIPSetError",
                                   !.upserts = Append(@, hostName),
                                   !.calls = Append(@,
                                       StoreCall("CreateOrPatch", "IPSet", hostName,
                                                 "failed", "CreateOrPatchIPSetError"))]
                  ELSE LET r == CreateOrPatchIPSet(acc.store[hostName], nets)
                       IN  ReserveLoop(spec, i + 1, failIdx,
                             [acc EXCEPT !.ipamUsed = TRUE,
                                !.store = [@ EXCEPT ![hostName] = r.obj],
                                !.m = Put(@, hostName, r.obj),
                                !.upserts = Append(@, hostName),
                                !.calls = Append(@,
                                    StoreCall("CreateOrPatch", "IPSet", hostName,
                                              r.op, NilError)),
                                !.writes = @ + (IF r.op = "unchanged" THEN 0 ELSE 1)])
             ELSE ReserveLoop(spec, i + 1, failIdx, acc)

\* reserveIPs deleting the IPSets of the hosts it did not reserve for
reserveIPsDeletesOrphans(spec, conds, store, nNetConfigs, listFail, failIdx) ==
    LET start == [store |-> store, m |-> EmptyMap, ipamUsed |-> FALSE,
                  err |-> NilError, upserts |-> <<>>, writes |-> 0,
                  calls |-> <<StoreCall("List", "NetConfig", <<>>, "listed",
                                        IF listFail THEN "ListNetConfigError"
                                        ELSE NilError)>>]
    IN  IF listFail
        THEN [start EXCEPT !.err = "ListNetConfigError"] @@
             [allIPSets |-> NilMap, conds |-> conds, listed |-> 0]
        ELSE IF nNetConfigs = 0
        THEN start @@
             [allIPSets |-> NilMap, listed |-> 0,
              conds |-> Remove(conds, NodeSetIPReservationReadyCondition)]
        ELSE LET r == ReserveLoop(spec, 1, failIdx, start)
             IN  [r EXCEPT !.store = [h \in DOMAIN store |->
                                        IF h \in DOMAIN r.m THEN r.store[h]
                                        ELSE NoIPSet]] @@
                 [allIPSets |-> IF r.err # NilError THEN NilMap ELSE MakeMap(r.m),
                  listed |-> nNetConfigs,
                  conds |-> IF r.err = NilError /\ ~r.ipamUsed
                            THEN Remove(conds, NodeSetIPReservationReadyCondition)
                            ELSE conds]

\* reserveIPs going through the nodes whether or not a NetConfig exists
reserveIPsWithoutNetConfigCheck(spec, conds, store, nNetConfigs, listFail, failIdx) ==
    LET start == [store |-> store, m |-> EmptyMap, ipamUsed |-> FALSE,
                  err |-> NilError, upserts |-> <<>>, writes |-> 0,
                  calls |-> <<StoreCall("List", "NetConfig", <<>>, "listed",
                                        IF listFail THEN "ListNetConfigError"
                                        ELSE NilError)>>]
    IN  IF listFail
        THEN [start EXCEPT !.err = "ListNetConfigError"] @@
             [allIPSets |-> NilMap, conds |-> conds, listed |-> 0]
        ELSE LET r == ReserveLoop(spec, 1, failIdx, start)
             IN  r @@
                 [allIPSets |-> IF r.err # NilError THEN NilMap ELSE MakeMap(r.m),
                  listed |-> nNetConfigs,
                  conds |-> IF r.err = NilError /\ ~r.ipamUsed
                            THEN Remove(conds, NodeSetIPReservationReadyCondition)
                            ELSE conds]

\* reserveIPs: the map (nil on error and without NetConfig), the error, the
\* store and the conditions after the call
reserveIPs(spec, conds, store, nNetConfigs, listFail, failIdx) ==
    LET start == [store |-> store, m |-> EmptyMap, ipamUsed |-> FALSE,
                  err |-> NilError, upserts |-> <<>>, writes |-> 0,
                  calls |-> <<StoreCall("List", "NetConfig", <<>>, "listed",
                                        IF listFail THEN "ListNetConfigError"
                                        ELSE NilError)>>]
    IN  IF listFail
        THEN [start EXCEPT !.err = "ListNetConfigError"] @@
             [allIPSets |-> NilMap, conds |-> conds, listed |-> 0]
        ELSE IF nNetConfigs = 0
        THEN start @@
             [allIPSets |-> NilMap, listed |-> 0,
              conds |-> Remove(conds, NodeSetIPReservationReadyCondition)]
        ELSE LET r == ReserveLoop(spec, 1, failIdx, start)
             IN  r @@
                 [allIPSets |-> IF r.err # NilError THEN NilMap ELSE MakeMap(r.m),
                  listed |-> nNetConfigs,
                  conds |-> IF r.err = NilError /\ ~r.ipamUsed
                            THEN Remove(conds, NodeSetIPReservationReadyCondition)
                            ELSE conds]

----------------------------------------------------------------------------
(* EnsureIPSets *)

\* ScanAllTrue as the scan that waits only on a member explicitly False
RECURSIVE ScanNoneFalse(_, _, _)
ScanNoneFalse(order, m, i) ==
    IF i > Len(order) THEN TRUE
    ELSE IF IsFalse(m[order[i]]) THEN FALSE
    ELSE ScanNoneFalse(order, m, i + 1)

\* for _, s := range allIPSets, in the order the map iteration yields:
\* the first member that is not confirmed True ends the scan
RECURSIVE ScanAllTrue(_, _, _)
ScanAllTrue(order, m, i) ==
    IF i > Len(order) THEN TRUE
    ELSE IF ~IsTrue(m[order[i]]) THEN FALSE
    ELSE ScanAllTrue(order, m, i + 1)

\* EnsureIPSetsResult reporting the Waiting outcome as an error
EnsureIPSetsResultWaitingAsError(r, order) ==
    IF r.err # NilError
    THEN [map |-> NilMap, ok |-> FALSE, err |-> r.err, scan |-> FALSE,
          conds |-> MarkFalse(r.conds, NodeSetIPReservationReadyCondition,
                              "Error", "Error")]
    ELSE IF MapLen(r.allIPSets) = 0
    THEN [map |-> NilMap, ok |-> TRUE, err |-> NilError, scan |-> FALSE,
          conds |-> r.conds]
    ELSE IF ~ScanAllTrue(order, r.allIPSets.items, 1)
    THEN [map |-> NilMap, ok |-> FALSE, err |-> "IPSetsNotReady", scan |-> TRUE,
          conds |-> MarkFalse(r.conds, NodeSetIPReservationReadyCondition,
                              "Requested", "Info")]
    ELSE [map |-> r.allIPSets, ok |-> TRUE, err |-> NilError, scan |-> TRUE,
          conds |-> MarkTrue(r.conds, NodeSetIPReservationReadyCondition)]

\* EnsureIPSetsResult returning the map it scanned in the Waiting outcome
EnsureIPSetsResultKeepsMap(r, order) ==
    IF r.err # NilError
    THEN [map |-> NilMap, ok |-> FALSE, err |-> r.err, scan |-> FALSE,
          conds |-> MarkFalse(r.conds, NodeSetIPReservationReadyCondition,
                              "Error", "Error")]
    ELSE IF MapLen(r.allIPSets) = 0
    THEN [map |-> NilMap, ok |-> TRUE, err |-> NilError, scan |-> FALSE,
          conds |-> r.conds]
    ELSE IF ~ScanAllTrue(order, r.allIPSets.items, 1)
    THEN [map |-> r.allIPSets, ok |-> FALSE, err |-> NilError, scan |-> TRUE,
          conds |-> MarkFalse(r.conds, NodeSetIPReservationReadyCondition,
                              "Requested", "Info")]
    ELSE [map |-> r.allIPSets, ok |-> TRUE, err |-> NilError, scan |-> TRUE,
          conds |-> MarkTrue(r.conds, NodeSetIPReservationReadyCondition)]

\* EnsureIPSetsResult without the len(allIPSets) == 0 return
EnsureIPSetsResultNoLenCheck(r, order) ==
    IF r.err # NilError
    THEN [map |-> NilMap, ok |-> FALSE, err |-> r.err, scan |-> FALSE,
          conds |-> MarkFalse(r.conds, NodeSetIPReservationReadyCondition,
                              "Error", "Error")]
    ELSE IF ~ScanAllTrue(order, r.allIPSets.items, 1)
    THEN [map |-> NilMap, ok |-> FALSE, err |-> NilError, scan |-> TRUE,
          conds |-> MarkFalse(r.conds, NodeSetIPReservationReadyCondition,
                              "Requested", "Info")]
    ELSE [map |-> r.allIPSets, ok |-> TRUE, err |-> NilError, scan |-> TRUE,
          conds |-> MarkTrue(r.conds, NodeSetIPReservationReadyCondition)]

\* EnsureIPSetsResult leaving the condition as it is on an error
EnsureIPSetsResultErrorUnmarked(r, order) ==
    IF r.err # NilError
    THEN [map |-> NilMap, ok |-> FALSE, err |-> r.err, scan |-> FALSE, conds |-> r.conds]
    ELSE IF MapLen(r.allIPSets) = 0
    THEN [map |-> NilMap, ok |-> TRUE, err |-> NilError, scan |-> FALSE,
          conds |-> r.conds]
    ELSE IF ~ScanAllTrue(order, r.allIPSets.items, 1)
    THEN [map |-> NilMap, ok |-> FALSE, err |-> NilError, scan |-> TRUE,
          conds |-> MarkFalse(r.conds, NodeSetIPReservationReadyCondition,
                              "Requested", "Info")]
    ELSE [map |-> r.allIPSets, ok |-> TRUE, err |-> NilError, scan |-> TRUE,
          conds |-> MarkTrue(r.conds, NodeSetIPReservationReadyCondition)]

\* EnsureIPSets taking an error of reserveIPs for a reservation in
\* progress
EnsureIPSetsResultRetriesOnError(r, order) ==
    IF r.err # NilError
    THEN [map |-> NilMap, ok |-> FALSE, err |-> NilError, scan |-> FALSE,
          conds |-> MarkFalse(r.conds, NodeSetIPReservationReadyCondition,
                              "Requested", "Info")]
    ELSE IF MapLen(r.allIPSets) = 0
    THEN [map |-> NilMap, ok |-> TRUE, err |-> NilError, scan |-> FALSE,
          conds |-> r.conds]
    ELSE IF ~ScanAllTrue(order, r.allIPSets.items, 1)
    THEN [map |-> NilMap, ok |-> FALSE, err |-> NilError, scan |-> TRUE,
          conds |-> MarkFalse(r.conds, NodeSetIPReservationReadyCondition,
                              "Requested", "Info")]
    ELSE [map |-> r.allIPSets, ok |-> TRUE, err |-> NilError, scan |-> TRUE,
          conds |-> MarkTrue(r.conds, NodeSetIPReservationReadyCondition)]

\* EnsureIPSets: r is the outcome of reserveIPs, order the iteration order
\* of the map.  Gives the returned (map, bool, error) and the conditions.
EnsureIPSetsResult(r, order) ==
    IF r.err # NilError
    THEN [map |-> NilMap, ok |-> FALSE, err |-> r.err, scan |-> FALSE,
          conds |-> MarkFalse(r.conds, NodeSetIPReservationReadyCondition,
                              "Error", "Error")]
    ELSE IF MapLen(r.allIPSets) = 0
    THEN [map |-> NilMap, ok |-> TRUE, err |-> NilError, scan |-> FALSE,
          conds |-> r.conds]
    ELSE IF ~ScanAllTrue(order, r.allIPSets.items, 1)
    THEN [map |-> NilMap, ok |-> FALSE, err |-> NilError, scan |-> TRUE,
          conds |-> MarkFalse(r.conds, NodeSetIPReservationReadyCondition,
                              "Requested", "Info")]
    ELSE [map |-> r.allIPSets, ok |-> TRUE, err |-> NilError, scan |-> TRUE,
          conds |-> MarkTrue(r.conds, NodeSetIPReservationReadyCondition)]

\* HistoricalEnsureIPSetsResult waiting on a member that is not confirmed
\* True
HistoricalEnsureIPSetsResultWaitsOnUnset(r, order) ==
    IF r.err # NilError
    THEN [map |-> NilMap, ok |-> FALSE, err |-> r.err, scan |-> FALSE,
          conds |-> MarkFalse(r.conds, NodeSetIPReservationReadyCondition,
                              "Error", "Error")]
    ELSE IF MapLen(r.allIPSets) = 0
    THEN [map |-> NilMap, ok |-> TRUE, err |-> NilError, scan |-> FALSE,
          conds |-> r.conds]
    ELSE IF \E i \in 1..Len(order) : ~IsTrue(r.allIPSets.items[order[i]])
    THEN [map |-> NilMap, ok |-> FALSE, err |-> NilError, scan |-> TRUE,
          conds |-> MarkFalse(r.conds, NodeSetIPReservationReadyCondition,
                              "Requested", "Info")]
    ELSE [map |-> r.allIPSets, ok |-> TRUE, err |-> NilError, scan |-> TRUE,
          conds |-> MarkTrue(r.conds, NodeSetIPReservationReadyCondition)]

\* EnsureIPSets of the historical variant: the scan ends at the first
\* member whose Ready condition is explicitly False; a member whose
\* condition is unset does not end it.
HistoricalEnsureIPSetsResult(r, order) ==
    IF r.err # NilError
    THEN [map |-> NilMap, ok |-> FALSE, err |-> r.err, scan |-> FALSE,
          conds |-> MarkFalse(r.conds, NodeSetIPReservationReadyCondition,
                              "Error", "Error")]
    ELSE IF MapLen(r.allIPSets) = 0
    THEN [map |-> NilMap, ok |-> TRUE, err |-> NilError, scan |-> FALSE,
          conds |-> r.conds]
    ELSE IF \E i \in 1..Len(order) : IsFalse(r.allIPSets.items[order[i]])
    THEN [map |-> NilMap, ok |-> FALSE, err |-> NilError, scan |-> TRUE,
          conds |-> MarkFalse(r.conds, NodeSetIPReservationReadyCondition,
                              "Requested", "Info")]
    ELSE [map |-> r.allIPSets, ok |-> TRUE, err |-> NilError, scan |-> TRUE,
          conds |-> MarkTrue(r.conds, NodeSetIPReservationReadyCondition)]

NoIPCall == [called |-> FALSE, listFail |-> FALSE, listed |-> 0,
             upserts |-> <<>>, writes |-> 0, scanned |-> NilMap,
             map |-> NilMap, ok |-> FALSE, err |-> NilError,
             before |-> [h \in HostNamePool |-> NoIPSet], calls |-> <<>>,
             scan |-> FALSE]

\* One call of EnsureIPSets by the caller, which starts a pass.
EnsureIPSetsCall(listFail, failIdx, order) ==
    /\ pc = "idle"
    /\ \E r \in {reserveIPs(nodeset, conditions, ipsets, netConfigs,
                            listFail, failIdx)} :
           /\ order \in Orders(DOMAIN r.allIPSets.items)
           /\ \E e \in {EnsureIPSetsResult(r, order)} :
                  /\ conditions' = e.conds
                  /\ ipsets' = r.store
                  /\ ipCall' = [called |-> TRUE, listFail |-> listFail,
                                listed |-> r.listed, upserts |-> r.upserts,
                                writes |-> r.writes, scanned |-> r.allIPSets,
                                map |-> e.map, ok |-> e.ok, err |-> e.err,
                                before |-> ipsets, calls |-> r.calls,
                                scan |-> e.scan]
    /\ pc' = "reserved"
    /\ UNCHANGED <<nodeset, netConfigs, dnsmasqs, dnsdata, dns, dnsCall, builders>>

\* The EnsureIPSets call of one of the passes of the behaviour.
EnsureIPSets(listFail, failIdx, order) ==
    /\ passes < MaxPasses
    /\ EnsureIPSetsCall(listFail, failIdx, order)
    /\ passes' = passes + 1
    /\ UNCHANGED envSteps

----------------------------------------------------------------------------
(* DataplaneDNSData *)

\* the zero value DataplaneDNSData{}
ZeroDNSData == [ServerAddresses |-> NilSlice, ClusterAddresses |-> NilSlice,
                CtlplaneSearchDomain |-> EmptyString, Ready |-> FALSE,
                Hostnames |-> NilMap, AllIPs |-> NilMap]

\* CheckDNSService returning an error of its own in place of the List error
CheckDNSServiceWrapsError(d, masqs, listFail) ==
    IF listFail
    THEN [dns |-> [d EXCEPT !.Ready = FALSE], err |-> "CheckDNSServiceError"]
    ELSE IF Len(masqs) = 0
    THEN [dns |-> [d EXCEPT !.Ready = TRUE], err |-> NilError]
    ELSE IF ~masqs[1].Ready
    THEN [dns |-> [d EXCEPT !.Ready = FALSE], err |-> NilError]
    ELSE [dns |-> [d EXCEPT !.ClusterAddresses = masqs[1].DNSClusterAddresses,
                            !.ServerAddresses = masqs[1].DNSAddresses,
                            !.Ready = TRUE],
          err |-> NilError]

\* CheckDNSService consulting the last DNSMasq of the list
CheckDNSServiceLastItem(d, masqs, listFail) ==
    IF listFail
    THEN [dns |-> [d EXCEPT !.Ready = FALSE], err |-> "ListDNSMasqError"]
    ELSE IF Len(masqs) = 0
    THEN [dns |-> [d EXCEPT !.Ready = TRUE], err |-> NilError]
    ELSE IF ~masqs[Len(masqs)].Ready
    THEN [dns |-> [d EXCEPT !.Ready = FALSE], err |-> NilError]
    ELSE [dns |-> [d EXCEPT !.ClusterAddresses = masqs[Len(masqs)].DNSClusterAddresses,
                            !.ServerAddresses = masqs[Len(masqs)].DNSAddresses,
                            !.Ready = TRUE],
          err |-> NilError]

\* CheckDNSService taking the cluster addresses from the server addresses
CheckDNSServiceClusterFromServerAddresses(d, masqs, listFail) ==
    IF listFail
    THEN [dns |-> [d EXCEPT !.Ready = FALSE], err |-> "ListDNSMasqError"]
    ELSE IF Len(masqs) = 0
    THEN [dns |-> [d EXCEPT !.Ready = TRUE], err |-> NilError]
    ELSE IF ~masqs[1].Ready
    THEN [dns |-> [d EXCEPT !.Ready = FALSE], err |-> NilError]
    ELSE [dns |-> [d EXCEPT !.ClusterAddresses = masqs[1].DNSAddresses,
                            !.ServerAddresses = masqs[1].DNSAddresses,
                            !.Ready = TRUE],
          err |-> NilError]

\* CheckDNSService: the receiver and the error after the call.  Only the
\* first DNSMasq of the list is consulted.
CheckDNSService(d, masqs, listFail) ==
    IF listFail
    THEN [dns |-> [d EXCEPT !.Ready = FALSE], err |-> "ListDNSMasqError"]
    ELSE IF Len(masqs) = 0
    THEN [dns |-> [d EXCEPT !.Ready = TRUE], err |-> NilError]
    ELSE IF ~masqs[1].Ready
    THEN [dns |-> [d EXCEPT !.Ready = FALSE], err |-> NilError]
    ELSE [dns |-> [d EXCEPT !.ClusterAddresses = masqs[1].DNSClusterAddresses,
                            !.ServerAddresses = masqs[1].DNSAddresses,
                            !.Ready = TRUE],
          err |-> NilError]

\* BuildReservations registering the derived name on the control-plane
\* network only
RECURSIVE BuildReservationsCtlplaneAliasOnly(_, _, _, _)
BuildReservationsCtlplaneAliasOnly(hostName, resv, i, acc) ==
    IF i > Len(resv) THEN acc
    ELSE LET res == resv[i]
             shortName == ShortName(hostName)
             netLower == ToLower(res.Network)
             fqdnName == JoinFQDN(shortName, res.DNSDomain)
             derived == fqdnName # hostName /\ netLower = CtlPlaneNetwork
             names1 == IF derived THEN <<fqdnName>> ELSE <<>>
             host1 == IF derived
                      THEN Put(acc.Hostnames[hostName], netLower, fqdnName)
                      ELSE acc.Hostnames[hostName]
             own == NodeHostNameIsFQDN(hostName) /\ netLower = CtlPlaneNetwork
             names2 == IF own THEN Append(names1, hostName) ELSE names1
             host2 == IF own THEN Put(host1, netLower, hostName) ELSE host1
         IN  BuildReservationsCtlplaneAliasOnly(hostName, resv, i + 1,
               [acc EXCEPT
                  !.Hostnames = Put(@, hostName, host2),
                  !.AllIPs = Put(@, hostName,
                                 Put(acc.AllIPs[hostName], netLower, res.Address)),
                  !.allDNSRecords = Append(@, [IP |-> res.Address,
                                               Hostnames |-> names2]),
                  !.CtlplaneSearchDomain =
                      IF netLower = CtlPlaneNetwork
                         /\ acc.ctlplaneSearchDomain = EmptyString
                      THEN res.DNSDomain ELSE @])

\* BuildReservations registering the derived name also when it is the
\* host name
RECURSIVE BuildReservationsAlwaysDerived(_, _, _, _)
BuildReservationsAlwaysDerived(hostName, resv, i, acc) ==
    IF i > Len(resv) THEN acc
    ELSE LET res == resv[i]
             shortName == ShortName(hostName)
             netLower == ToLower(res.Network)
             fqdnName == JoinFQDN(shortName, res.DNSDomain)
             derived == TRUE
             names1 == IF derived THEN <<fqdnName>> ELSE <<>>
             host1 == IF derived
                      THEN Put(acc.Hostnames[hostName], netLower, fqdnName)
                      ELSE acc.Hostnames[hostName]
             own == NodeHostNameIsFQDN(hostName) /\ netLower = CtlPlaneNetwork
             names2 == IF own THEN Append(names1, hostName) ELSE names1
             host2 == IF own THEN Put(host1, netLower, hostName) ELSE host1
         IN  BuildReservationsAlwaysDerived(hostName, resv, i + 1,
               [acc EXCEPT
                  !.Hostnames = Put(@, hostName, host2),
                  !.AllIPs = Put(@, hostName,
                                 Put(acc.AllIPs[hostName], netLower, res.Address)),
                  !.allDNSRecords = Append(@, [IP |-> res.Address,
                                               Hostnames |-> names2]),
                  !.CtlplaneSearchDomain =
                      IF netLower = CtlPlaneNetwork
                         /\ acc.ctlplaneSearchDomain = EmptyString
                      THEN res.DNSDomain ELSE @])

\* The loop over ipSet.Status.Reservation of one node, from reservation i
\* on.  acc.ctlplaneSearchDomain is the local variable of that name: the
\* loop tests it and never assigns it.
RECURSIVE BuildReservations(_, _, _, _)
BuildReservations(hostName, resv, i, acc) ==
    IF i > Len(resv) THEN acc
    ELSE LET res == resv[i]
             shortName == ShortName(hostName)
             netLower == ToLower(res.Network)
             fqdnName == JoinFQDN(shortName, res.DNSDomain)
             derived == fqdnName # hostName
             names1 == IF derived THEN <<fqdnName>> ELSE <<>>
             host1 == IF derived
                      THEN Put(acc.Hostnames[hostName], netLower, fqdnName)
                      ELSE acc.Hostnames[hostName]
             own == NodeHostNameIsFQDN(hostName) /\ netLower = CtlPlaneNetwork
             names2 == IF own THEN Append(names1, hostName) ELSE names1
             host2 == IF own THEN Put(host1, netLower, hostName) ELSE host1
         IN  BuildReservations(hostName, resv, i + 1,
               [acc EXCEPT
                  !.Hostnames = Put(@, hostName, host2),
                  !.AllIPs = Put(@, hostName,
                                 Put(acc.AllIPs[hostName], netLower, res.Address)),
                  !.allDNSRecords = Append(@, [IP |-> res.Address,
                                               Hostnames |-> names2]),
                  !.CtlplaneSearchDomain =
                      IF netLower = CtlPlaneNetwork
                         /\ acc.ctlplaneSearchDomain = EmptyString
                      THEN res.DNSDomain ELSE @])

\* The loop over instance.Spec.Nodes of createOrPatchDNSData, from node i
\* on.  acc.read collects the names of the IPSets whose reservations the
\* loop consulted.
RECURSIVE BuildNodes(_, _, _, _)
BuildNodes(spec, allIPSets, i, acc) ==
    IF i > Len(spec.Nodes) THEN acc
    ELSE LET node == spec.Nodes[i]
             hostName == node.HostName
             nets == EffectiveNetworks(spec, node)
             a1 == [acc EXCEPT !.Hostnames = Put(@, hostName, EmptyMap),
                               !.AllIPs = Put(@, hostName, EmptyMap)]
             a2 == IF Len(nets) > 0 /\ hostName \in DOMAIN allIPSets.items
                   THEN BuildReservations(hostName,
                            allIPSets.items[hostName].Reservation, 1,
                            [a1 EXCEPT !.read = @ \cup {hostName}])
                   ELSE a1
         IN  BuildNodes(spec, allIPSets, i + 1, a2)

\* CreateOrPatchDNSDataObject adding the records to the stored list
CreateOrPatchDNSDataObjectKeepsHosts(obj, hosts) ==
    IF ~obj.exists
    THEN [obj |-> [NoDNSData EXCEPT !.exists = TRUE, !.Hosts = hosts,
                                    !.label = "dnsdata", !.owner = Parent],
          op |-> "created"]
    ELSE IF obj.Hosts = hosts /\ obj.label = "dnsdata" /\ obj.owner = Parent
    THEN [obj |-> obj, op |-> "unchanged"]
    ELSE [obj |-> [obj EXCEPT !.Hosts = @ \o SelectSeq(hosts,
                                              LAMBDA r : r \notin Range(obj.Hosts)),
                              !.label = "dnsdata", !.owner = Parent],
          op |-> "updated"]

\* controllerutil.CreateOrPatch of the DNSData object whose mutate callback
\* sets Spec.Hosts, the label selector value and the controller reference
CreateOrPatchDNSDataObject(obj, hosts) ==
    IF ~obj.exists
    THEN [obj |-> [NoDNSData EXCEPT !.exists = TRUE, !.Hosts = hosts,
                                    !.label = "dnsdata", !.owner = Parent],
          op |-> "created"]
    ELSE IF obj.Hosts = hosts /\ obj.label = "dnsdata" /\ obj.owner = Parent
    THEN [obj |-> obj, op |-> "unchanged"]
    ELSE [obj |-> [obj EXCEPT !.Hosts = hosts, !.label = "dnsdata",
                              !.owner = Parent],
          op |-> "updated"]

\* createOrPatchDNSData: the receiver, the stored DNSData and the error
\* after the call
createOrPatchDNSData(d, spec, allIPSets, stored, patchFail) ==
    LET built == BuildNodes(spec, allIPSets, 1,
                   [allDNSRecords |-> <<>>,
                    ctlplaneSearchDomain |-> EmptyString,
                    CtlplaneSearchDomain |-> d.CtlplaneSearchDomain,
                    Hostnames |-> EmptyMap, AllIPs |-> EmptyMap,
                    read |-> {}])
        d1 == [d EXCEPT !.Hostnames = MakeMap(built.Hostnames),
                        !.AllIPs = MakeMap(built.AllIPs),
                        !.CtlplaneSearchDomain = built.CtlplaneSearchDomain]
        w == CreateOrPatchDNSDataObject(stored, built.allDNSRecords)
    IN  IF patchFail
        THEN [dns |-> d1, dnsdata |-> stored, err |-> "CreateOrPatchDNSDataError",
              op |-> "failed", records |-> built.allDNSRecords,
              read |-> built.read]
        ELSE [dns |-> d1, dnsdata |-> w.obj, err |-> NilError, op |-> w.op,
              records |-> built.allDNSRecords, read |-> built.read]

----------------------------------------------------------------------------
(* EnsureDNSData *)

\* EnsureDNSData marking the condition True without looking at the
\* readiness of the DNSData it read back
EnsureDNSDataResultIgnoresReadiness(d, conds, spec, allIPSets, masqs, stored, listFail, patchFail, getFail) ==
    LET chk == CheckDNSService(d, masqs, listFail)
        t == NodeSetDNSDataReadyCondition
        listCall == StoreCall("List", "DNSMasq", <<>>, "listed",
                              IF listFail THEN "ListDNSMasqError" ELSE NilError)
        patchCall == StoreCall("CreateOrPatch", "DNSData", <<Parent>>,
                               IF patchFail THEN "failed" ELSE "patched",
                               IF patchFail THEN "CreateOrPatchDNSDataError"
                               ELSE NilError)
        getCall == StoreCall("Get", "DNSData", <<Parent>>, "read",
                             IF getFail THEN "GetDNSDataError" ELSE NilError)
        none == [builder |-> FALSE, op |-> "none", got |-> FALSE,
                 records |-> <<>>, read |-> {}, calls |-> <<listCall>>]
    IN  IF chk.err # NilError \/ ~chk.dns.Ready \/ chk.dns.ClusterAddresses.isNil
        THEN LET c1 == IF chk.err # NilError
                       THEN MarkFalse(conds, t, "Error", "Error") ELSE conds
                 c2 == IF ~chk.dns.Ready
                       THEN MarkFalse(c1, t, "Requested", "Info") ELSE c1
                 c3 == IF chk.dns.ClusterAddresses.isNil
                       THEN Remove(c2, t) ELSE c2
             IN  none @@ [dns |-> chk.dns, conds |-> c3, dnsdata |-> stored,
                          err |-> chk.err]
        ELSE LET b == createOrPatchDNSData(chk.dns, spec, allIPSets, stored,
                                           patchFail)
                 ran == [builder |-> TRUE, op |-> b.op, records |-> b.records,
                         read |-> b.read, dnsdata |-> b.dnsdata]
             IN  IF b.err # NilError
                 THEN ran @@ [dns |-> b.dns, got |-> FALSE, err |-> b.err,
                              calls |-> <<listCall, patchCall>>,
                              conds |-> MarkFalse(conds, t, "Error", "Error")]
                 ELSE IF getFail
                 THEN ran @@ [dns |-> b.dns, got |-> TRUE, err |-> "GetDNSDataError",
                              calls |-> <<listCall, patchCall, getCall>>,
                              conds |-> MarkFalse(conds, t, "Error", "Error")]
                 ELSE ran @@ [dns |-> [b.dns EXCEPT !.Ready = TRUE],
                              got |-> TRUE, err |-> NilError,
                              calls |-> <<listCall, patchCall, getCall>>,
                              conds |-> MarkTrue(conds, t)]

\* EnsureDNSData: the receiver, the conditions, the stored DNSData and the
\* error after the call, with the steps the call went through
EnsureDNSDataResult(d, conds, spec, allIPSets, masqs, stored, listFail, patchFail, getFail) ==
    LET chk == CheckDNSService(d, masqs, listFail)
        t == NodeSetDNSDataReadyCondition
        listCall == StoreCall("List", "DNSMasq", <<>>, "listed",
                              IF listFail THEN "ListDNSMasqError" ELSE NilError)
        patchCall == StoreCall("CreateOrPatch", "DNSData", <<Parent>>,
                               IF patchFail THEN "failed" ELSE "patched",
                               IF patchFail THEN "CreateOrPatchDNSDataError"
                               ELSE NilError)
        getCall == StoreCall("Get", "DNSData", <<Parent>>, "read",
                             IF getFail THEN "GetDNSDataError" ELSE NilError)
        none == [builder |-> FALSE, op |-> "none", got |-> FALSE,
                 records |-> <<>>, read |-> {}, calls |-> <<listCall>>]
    IN  IF chk.err # NilError \/ ~chk.dns.Ready \/ chk.dns.ClusterAddresses.isNil
        THEN LET c1 == IF chk.err # NilError
                       THEN MarkFalse(conds, t, "Error", "Error") ELSE conds
                 c2 == IF ~chk.dns.Ready
                       THEN MarkFalse(c1, t, "Requested", "Info") ELSE c1
                 c3 == IF chk.dns.ClusterAddresses.isNil
                       THEN Remove(c2, t) ELSE c2
             IN  none @@ [dns |-> chk.dns, conds |-> c3, dnsdata |-> stored,
                          err |-> chk.err]
        ELSE LET b == createOrPatchDNSData(chk.dns, spec, allIPSets, stored,
                                           patchFail)
                 ran == [builder |-> TRUE, op |-> b.op, records |-> b.records,
                         read |-> b.read, dnsdata |-> b.dnsdata]
             IN  IF b.err # NilError
                 THEN ran @@ [dns |-> b.dns, got |-> FALSE, err |-> b.err,
                              calls |-> <<listCall, patchCall>>,
                              conds |-> MarkFalse(conds, t, "Error", "Error")]
                 ELSE IF getFail
                 THEN ran @@ [dns |-> b.dns, got |-> TRUE, err |-> "GetDNSDataError",
                              calls |-> <<listCall, patchCall, getCall>>,
                              conds |-> MarkFalse(conds, t, "Error", "Error")]
                 ELSE IF ~b.dnsdata.Ready
                 THEN ran @@ [dns |-> [b.dns EXCEPT !.Ready = FALSE],
                              got |-> TRUE, err |-> NilError,
                              calls |-> <<listCall, patchCall, getCall>>,
                              conds |-> MarkFalse(conds, t, "Requested", "Info")]
                 ELSE ran @@ [dns |-> [b.dns EXCEPT !.Ready = TRUE],
                              got |-> TRUE, err |-> NilError,
                              calls |-> <<listCall, patchCall, getCall>>,
                              conds |-> MarkTrue(conds, t)]

NoDNSCall == [called |-> FALSE, listFail |-> FALSE, masqs |-> <<>>,
              allIPSets |-> NilMap, ipOK |-> FALSE, before |-> ZeroDNSData,
              builder |-> FALSE, op |-> "none", got |-> FALSE,
              records |-> <<>>, read |-> {}, err |-> NilError,
              calls |-> <<>>, hostsBefore |-> <<>>]

\* One call of EnsureDNSData by the caller, on the map the EnsureIPSets
\* call of the pass returned.
EnsureDNSData(listFail, patchFail, getFail) ==
    /\ pc = "reserved"
    /\ \E e \in {EnsureDNSDataResult(dns, conditions, nodeset, ipCall.map,
                                    dnsmasqs, dnsdata, listFail, patchFail, getFail)} :
           /\ dns' = e.dns
           /\ conditions' = e.conds
           /\ dnsdata' = e.dnsdata
           /\ dnsCall' = [called |-> TRUE, listFail |-> listFail,
                          masqs |-> dnsmasqs, allIPSets |-> ipCall.map,
                          ipOK |-> ipCall.ok, before |-> dns,
                          builder |-> e.builder, op |-> e.op, got |-> e.got,
                          records |-> e.records, read |-> e.read, err |-> e.err,
                          calls |-> e.calls, hostsBefore |-> dnsdata.Hosts]
    /\ pc' = "done"
    /\ UNCHANGED <<nodeset, netConfigs, ipsets, dnsmasqs, ipCall, passes, envSteps,
                   builders>>

\* The caller returns from the pass, after EnsureIPSets or after
\* EnsureDNSData: the values the calls returned go out of scope.
EndPass ==
    /\ pc \in {"reserved", "done"}
    /\ pc' = "idle"
    /\ ipCall' = NoIPCall
    /\ dnsCall' = NoDNSCall
    /\ UNCHANGED <<nodeset, conditions, netConfigs, ipsets, dnsmasqs, dnsdata,
                   dns, passes, envSteps,
                   builders>>

\* The caller makes a new receiver, dnsData := DataplaneDNSData{}, for the
\* EnsureDNSData call of the pass.
NewDataplaneDNSData ==
    /\ pc = "reserved"
    /\ dns # ZeroDNSData
    /\ dns' = ZeroDNSData
    /\ UNCHANGED <<nodeset, conditions, netConfigs, ipsets, dnsmasqs, dnsdata,
                   pc, ipCall, dnsCall, passes, envSteps,
                   builders>>

----------------------------------------------------------------------------
(* The other controllers of the store.  They act between the passes: the *)
(* calls of a pass see a change made inside the pass as they see a change *)
(* made before or after it.                                               *)

\* the address reserved for a node on a network
AddressOf(hostName, net) == <<ShortName(hostName), net>>

\* Status.Reservation lists of an IPSet: one reservation per attachment,
\* each with a DNS domain.  A list of several reservations starts with a
\* reservation in example.com; the domains of the others vary.
ReservationLists(hostName, nets) ==
    {[i \in 1..Len(nets) |-> [Network |-> nets[i],
                              Address |-> AddressOf(hostName, nets[i]),
                              DNSDomain |-> ds[i]]] :
       ds \in {f \in [1..Len(nets) -> Domains] :
                  Len(nets) > 1 => f[1] = <<"example", "com">>}}

\* the DNSMasq statuses of the model; a DNSMasq that is not ready has no
\* addresses in its status yet
DNSMasqNotReady == [Ready |-> FALSE, DNSClusterAddresses |-> NilSlice,
                    DNSAddresses |-> NilSlice]
DNSMasqReady == [Ready |-> TRUE, DNSClusterAddresses |-> Slice(<<"10.217.4.10">>),
                 DNSAddresses |-> Slice(<<"192.168.122.80">>)]
DNSMasqNoClusterAddresses == [DNSMasqReady EXCEPT !.DNSClusterAddresses = NilSlice]
DNSMasqStates == {DNSMasqNotReady, DNSMasqReady, DNSMasqNoClusterAddresses}
DNSMasqLists == {<<>>} \cup {<<m>> : m \in DNSMasqStates}
                \cup {<<DNSMasqNotReady, DNSMasqReady>>}

\* NetConfig objects are created or deleted.
SetNetConfigs(n) ==
    /\ pc = "idle"
    /\ envSteps < MaxEnvSteps
    /\ n # netConfigs
    /\ netConfigs' = n
    /\ envSteps' = envSteps + 1
    /\ UNCHANGED <<nodeset, conditions, ipsets, dnsmasqs, dnsdata, dns, pc,
                   ipCall, dnsCall, passes,
                   builders>>

\* a status the IPSet controller writes: Ready True with the reservations,
\* or Ready False without them
IPSetStatuses(hostName, nets) ==
    {[Ready |-> "False", Reservation |-> <<>>]} \cup
    {[Ready |-> "True", Reservation |-> resv] :
        resv \in ReservationLists(hostName, nets)}

StatusOf(ipSet) == [Ready |-> ipSet.Ready, Reservation |-> ipSet.Reservation]

\* The IPSet controller reconciles IPSets: it writes the status of some of
\* the IPSets that exist.
WriteIPSetStatus(statuses) ==
    /\ pc = "idle"
    /\ \A h \in HostNamePool :
          \/ statuses[h] = StatusOf(ipsets[h])
          \/ ipsets[h].exists /\ statuses[h] \in IPSetStatuses(h, ipsets[h].Networks)
    /\ ipsets' = [h \in HostNamePool |->
                    [ipsets[h] EXCEPT !.Ready = statuses[h].Ready,
                                      !.Reservation = statuses[h].Reservation]]
    /\ ipsets' # ipsets
    /\ UNCHANGED <<nodeset, conditions, netConfigs, dnsmasqs, dnsdata, dns, pc,
                   ipCall, dnsCall, builders>>

\* One of the changes of the behaviour: the IPSet controller writes.
IPSetController(statuses) ==
    /\ envSteps < MaxEnvSteps
    /\ WriteIPSetStatus(statuses)
    /\ envSteps' = envSteps + 1
    /\ UNCHANGED passes

\* DNSMasq objects are created, deleted or get a new status.
WriteDNSMasqs(list) ==
    /\ pc = "idle"
    /\ list # dnsmasqs
    /\ dnsmasqs' = list
    /\ UNCHANGED <<nodeset, conditions, netConfigs, ipsets, dnsdata, dns, pc,
                   ipCall, dnsCall, builders>>

\* One of the changes of the behaviour: the DNSMasq list changes.
DNSMasqController(list) ==
    /\ envSteps < MaxEnvSteps
    /\ WriteDNSMasqs(list)
    /\ envSteps' = envSteps + 1
    /\ UNCHANGED passes

\* The DNSData controller writes the readiness of the DNSData object.
WriteDNSDataReady(ready) ==
    /\ pc = "idle"
    /\ dnsdata.exists
    /\ dnsdata.Ready # ready
    /\ dnsdata' = [dnsdata EXCEPT !.Ready = ready]
    /\ UNCHANGED <<nodeset, conditions, netConfigs, ipsets, dnsmasqs, dns, pc,
                   ipCall, dnsCall, builders>>

\* One of the changes of the behaviour: the DNSData controller writes.
DNSDataController(ready) ==
    /\ envSteps < MaxEnvSteps
    /\ WriteDNSDataReady(ready)
    /\ envSteps' = envSteps + 1
    /\ UNCHANGED passes

----------------------------------------------------------------------------
(* createOrPatchDNSData step by step.  Several calls for the same NodeSet  *)
(* (passes of concurrent reconciles, or a pass re-triggered while another  *)
(* still runs) interleave at the calls on the store: the Get and the       *)
(* Create or Patch that controllerutil.CreateOrPatch makes.  A call can    *)
(* be cancelled between them and a write can fail.                         *)

Builders == 1..MaxBuilders

IdleBuilder == [pc |-> "idle", records |-> <<>>, base |-> NoDNSData]

\* the maps EnsureIPSets can return for the NodeSet: nil, or the IPSet of
\* every participating node, Ready with its reservations
ReadyMaps(spec) ==
    LET idx == {i \in 1..Len(spec.Nodes) :
                  Len(EffectiveNetworks(spec, spec.Nodes[i])) > 0}
        hosts == {spec.Nodes[i].HostName : i \in idx}
        netsOf(h) == EffectiveNetworks(spec,
                        spec.Nodes[CHOOSE i \in idx : spec.Nodes[i].HostName = h])
        all == UNION {ReservationLists(h, netsOf(h)) : h \in hosts}
    IN  {NilMap} \cup
        {MakeMap([h \in hosts |->
                    [exists |-> TRUE, Networks |-> netsOf(h), owner |-> Parent,
                     Ready |-> "True", Reservation |-> f[h]]]) :
           f \in {g \in [hosts -> all] :
                    \A h \in hosts : g[h] \in ReservationLists(h, netsOf(h))}}

\* the Patch of controllerutil.CreateOrPatch merging the lists of hosts
MergePatchDNSDataMergesHosts(cur, base, hosts) ==
    [cur EXCEPT !.Hosts = IF hosts # base.Hosts
                          THEN @ \o SelectSeq(hosts, LAMBDA r : r \notin Range(cur.Hosts))
                          ELSE @,
                !.label = IF base.label # "dnsdata" THEN "dnsdata" ELSE @,
                !.owner = IF base.owner # Parent THEN Parent ELSE @]

\* the Patch of controllerutil.CreateOrPatch: a merge patch made of the
\* fields the mutate callback changed in the object read (base), applied
\* to the object as it is stored now (cur); a list is replaced as a whole
MergePatchDNSData(cur, base, hosts) ==
    [cur EXCEPT !.Hosts = IF hosts # base.Hosts THEN hosts ELSE @,
                !.label = IF base.label # "dnsdata" THEN "dnsdata" ELSE @,
                !.owner = IF base.owner # Parent THEN Parent ELSE @]

\* The loops of createOrPatchDNSData: the call computes allDNSRecords from
\* the map it was given.
BuildRecords(w, allIPSets) ==
    /\ builders[w].pc = "idle"
    /\ \E built \in {BuildNodes(nodeset, allIPSets, 1,
                         [allDNSRecords |-> <<>>,
                          ctlplaneSearchDomain |-> EmptyString,
                          CtlplaneSearchDomain |-> EmptyString,
                          Hostnames |-> EmptyMap, AllIPs |-> EmptyMap,
                          read |-> {}])} :
          builders' = [builders EXCEPT ![w] = [pc |-> "built",
                                               records |-> built.allDNSRecords,
                                               base |-> NoDNSData]]
    /\ UNCHANGED <<nodeset, conditions, netConfigs, ipsets, dnsmasqs, dnsdata,
                   dns, pc, ipCall, dnsCall, passes, envSteps>>

\* controllerutil.CreateOrPatch reads the DNSData.
GetDNSData(w) ==
    /\ builders[w].pc = "built"
    /\ builders' = [builders EXCEPT ![w].pc = "read", ![w].base = dnsdata]
    /\ UNCHANGED <<nodeset, conditions, netConfigs, ipsets, dnsmasqs, dnsdata,
                   dns, pc, ipCall, dnsCall, passes, envSteps>>

\* The object was not found: controllerutil.CreateOrPatch creates it.  The
\* Create fails when the object exists by now, and it can fail otherwise
\* (applied = FALSE); then nothing is written.
CreateDNSData(w, applied) ==
    /\ builders[w].pc = "read"
    /\ ~builders[w].base.exists
    /\ dnsdata' = IF applied /\ ~dnsdata.exists
                  THEN [NoDNSData EXCEPT !.exists = TRUE,
                                         !.Hosts = builders[w].records,
                                         !.label = "dnsdata", !.owner = Parent]
                  ELSE dnsdata
    /\ builders' = [builders EXCEPT ![w] = IdleBuilder]
    /\ UNCHANGED <<nodeset, conditions, netConfigs, ipsets, dnsmasqs,
                   dns, pc, ipCall, dnsCall, passes, envSteps>>

\* The object was found: controllerutil.CreateOrPatch patches it when the
\* mutate callback changed it.  The Patch can fail (applied = FALSE); then
\* nothing is written.
PatchDNSData(w, applied) ==
    /\ builders[w].pc = "read"
    /\ builders[w].base.exists
    /\ dnsdata' = IF applied
                  THEN MergePatchDNSData(dnsdata, builders[w].base,
                                         builders[w].records)
                  ELSE dnsdata
    /\ builders' = [builders EXCEPT ![w] = IdleBuilder]
    /\ UNCHANGED <<nodeset, conditions, netConfigs, ipsets, dnsmasqs,
                   dns, pc, ipCall, dnsCall, passes, envSteps>>

\* The context of the call is cancelled before its next call on the store.
CancelBuilder(w) ==
    /\ builders[w].pc \in {"built", "read"}
    /\ builders' = [builders EXCEPT ![w] = IdleBuilder]
    /\ UNCHANGED <<nodeset, conditions, netConfigs, ipsets, dnsmasqs, dnsdata,
                   dns, pc, ipCall, dnsCall, passes, envSteps>>

\* the NodeSets of the interleaved calls: those in which one node at most
\* takes part in the reservation, so that the record lists of two calls
\* differ in the reservations of that node
PersistNodeSets ==
    {spec \in NodeSetSpecs :
        \A i, j \in 1..Len(spec.Nodes) :
            (Len(EffectiveNetworks(spec, spec.Nodes[i])) > 0
               /\ Len(EffectiveNetworks(spec, spec.Nodes[j])) > 0) => i = j}

PersistInit ==
    /\ nodeset \in PersistNodeSets
    /\ conditions = [t \in {NodeSetIPReservationReadyCondition,
                            NodeSetDNSDataReadyCondition} |-> NoCondition]
    /\ netConfigs = 1
    /\ ipsets = [h \in HostNamePool |-> NoIPSet]
    /\ dnsmasqs = <<DNSMasqReady>>
    /\ dnsdata = NoDNSData
    /\ dns = ZeroDNSData
    /\ pc = "idle"
    /\ ipCall = NoIPCall
    /\ dnsCall = NoDNSCall
    /\ passes = 0
    /\ envSteps = 0
    /\ builders = [w \in Builders |-> IdleBuilder]

PersistNext ==
    \/ \E w \in Builders : \E allIPSets \in ReadyMaps(nodeset) :
          BuildRecords(w, allIPSets)
    \/ \E w \in Builders : GetDNSData(w)
    \/ \E w \in Builders, applied \in BOOLEAN : CreateDNSData(w, applied)
    \/ \E w \in Builders, applied \in BOOLEAN : PatchDNSData(w, applied)
    \/ \E w \in Builders : CancelBuilder(w)

PersistSpec == PersistInit /\ [][PersistNext]_vars

----------------------------------------------------------------------------
(* The state machine *)

Init ==
    /\ nodeset \in NodeSetSpecs
    /\ conditions = [t \in {NodeSetIPReservationReadyCondition,
                            NodeSetDNSDataReadyCondition} |-> NoCondition]
    /\ netConfigs \in 0..1
    /\ ipsets = [h \in HostNamePool |-> NoIPSet]
    /\ dnsmasqs \in DNSMasqLists
    /\ dnsdata = NoDNSData
    /\ dns = ZeroDNSData
    /\ pc = "idle"
    /\ ipCall = NoIPCall
    /\ dnsCall = NoDNSCall
    /\ passes = 0
    /\ envSteps = 0
    /\ builders = [w \in Builders |-> IdleBuilder]

Next ==
    \/ \E listFail \in BOOLEAN, failIdx \in 0..Len(nodeset.Nodes),
          order \in UNION {Orders(S) : S \in SUBSET HostNamePool} :
          EnsureIPSets(listFail, failIdx, order)
    \/ \E listFail, patchFail, getFail \in BOOLEAN :
          EnsureDNSData(listFail, patchFail, getFail)
    \/ EndPass
    \/ NewDataplaneDNSData
    \/ \E n \in 0..1 : SetNetConfigs(n)
    \/ \E statuses \in [HostNamePool ->
                           UNION {IPSetStatuses(h, ipsets[h].Networks) \cup {StatusOf(ipsets[h])} :
                                  h \in HostNamePool}] :
          IPSetController(statuses)
    \/ \E list \in DNSMasqLists : DNSMasqController(list)
    \/ \E ready \in BOOLEAN : DNSDataController(ready)

Spec == Init /\ [][Next]_vars

----------------------------------------------------------------------------
(* Passes on a NodeSet that was reconciled before.  The store is as        *)
(* earlier passes and the other controllers left it when everything was    *)
(* ready; then the NodeSet is edited or a dependency changes, and passes   *)
(* run again.                                                              *)

\* the edits of instance.Spec: a node is removed, the attachments of a
\* node are replaced (or emptied), the attachments of the template are
\* replaced (or emptied)
NodeSetEdits(spec) ==
    {[spec EXCEPT !.Nodes = SubSeq(@, 1, i - 1) \o SubSeq(@, i + 1, Len(@))] :
        i \in 1..Len(spec.Nodes)}
    \cup {[spec EXCEPT !.Nodes[i].Networks = nets] :
            i \in 1..Len(spec.Nodes), nets \in NetLists}
    \cup {[spec EXCEPT !.TemplateNetworks = nets] : nets \in TemplateNetLists}

\* The NodeSet is edited between two passes.
UpdateNodeSet(spec) ==
    /\ pc = "idle"
    /\ envSteps < MaxEnvSteps
    /\ spec \in NodeSetEdits(nodeset)
    /\ spec # nodeset
    /\ nodeset' = spec
    /\ envSteps' = envSteps + 1
    /\ UNCHANGED <<conditions, netConfigs, ipsets, dnsmasqs, dnsdata, dns, pc,
                   ipCall, dnsCall, passes, builders>>

\* the state a pass without failure leaves and finds again: the IPSet of
\* every participating node Ready with its reservations, the DNSData with
\* the records of that map and ready, both conditions as the pass set them
\* the NodeSets reconciled before: two nodes, the first with attachments
\* of its own, the second with those of the template
SteadyNodeSets ==
    {spec \in NodeSetSpecs :
        /\ Len(spec.Nodes) = 2
        /\ spec.Nodes[1].Networks # <<>>
        /\ spec.Nodes[2].Networks = <<>>
        /\ spec.TemplateNetworks # <<>>}

SteadyInit ==
    /\ nodeset \in SteadyNodeSets
    /\ netConfigs = 1
    /\ dnsmasqs = <<DNSMasqReady>>
    /\ \E m \in ReadyMaps(nodeset) \ {NilMap} :
          /\ ipsets = [h \in HostNamePool |->
                         IF h \in DOMAIN m.items THEN m.items[h] ELSE NoIPSet]
          /\ dnsdata = [exists |-> TRUE,
                        Hosts |-> BuildNodes(nodeset, m, 1,
                                    [allDNSRecords |-> <<>>,
                                     ctlplaneSearchDomain |-> EmptyString,
                                     CtlplaneSearchDomain |-> EmptyString,
                                     Hostnames |-> EmptyMap, AllIPs |-> EmptyMap,
                                     read |-> {}]).allDNSRecords,
                        label |-> "dnsdata", owner |-> Parent, Ready |-> TRUE]
          /\ conditions =
               [t \in {NodeSetIPReservationReadyCondition,
                       NodeSetDNSDataReadyCondition} |->
                  IF t = NodeSetIPReservationReadyCondition /\ MapLen(m) = 0
                  THEN NoCondition
                  ELSE [present |-> TRUE, status |-> "True", reason |-> "Ready",
                        severity |-> ""]]
    /\ dns = ZeroDNSData
    /\ pc = "idle"
    /\ ipCall = NoIPCall
    /\ dnsCall = NoDNSCall
    /\ passes = 0
    /\ envSteps = 0
    /\ builders = [w \in Builders |-> IdleBuilder]

SteadyNext ==
    \/ \E listFail \in BOOLEAN, failIdx \in 0..Len(nodeset.Nodes),
          order \in UNION {Orders(S) : S \in SUBSET HostNamePool} :
          EnsureIPSets(listFail, failIdx, order)
    \/ \E listFail, patchFail, getFail \in BOOLEAN :
          EnsureDNSData(listFail, patchFail, getFail)
    \/ EndPass
    \/ NewDataplaneDNSData
    \/ \E spec \in NodeSetSpecs : UpdateNodeSet(spec)
    \/ \E h \in HostNamePool :
          \E status \in IPSetStatuses(h, ipsets[h].Networks) :
             IPSetController([g \in HostNamePool |->
                                IF g = h THEN status ELSE StatusOf(ipsets[g])])
    \/ \E list \in DNSMasqLists : DNSMasqController(list)
    \/ \E ready \in BOOLEAN : DNSDataController(ready)

SteadySpec == SteadyInit /\ [][SteadyNext]_vars

----------------------------------------------------------------------------
(* Passes repeated without end.  The caller runs a pass after the other,   *)
(* each EnsureIPSets and then, unless EnsureIPSets reported an error or    *)
(* not ready, EnsureDNSData; the other controllers write when they want.   *)
(* The counters of the bounded behaviours are not used.                    *)

LiveEnsureIPSets ==
    \E listFail \in BOOLEAN, failIdx \in 0..Len(nodeset.Nodes),
       order \in UNION {Orders(S) : S \in SUBSET HostNamePool} :
       EnsureIPSetsCall(listFail, failIdx, order) /\ UNCHANGED <<passes, envSteps>>

LiveEnsureDNSData ==
    \E listFail, patchFail, getFail \in BOOLEAN :
       EnsureDNSData(listFail, patchFail, getFail)

\* the caller returns after EnsureDNSData, or after an EnsureIPSets that
\* returned an error or false
LiveEndPass ==
    /\ pc = "done" \/ ~ipCall.ok
    /\ EndPass

LiveIPSetController ==
    \E h \in HostNamePool :
       \E status \in IPSetStatuses(h, ipsets[h].Networks) :
          /\ WriteIPSetStatus([g \in HostNamePool |->
                                 IF g = h THEN status ELSE StatusOf(ipsets[g])])
          /\ UNCHANGED <<passes, envSteps>>

\* the DNSMasq of the namespace gets ready or stops being ready
LiveDNSMasqLists == {<<DNSMasqNotReady>>, <<DNSMasqReady>>}

LiveDNSMasqController ==
    \E list \in LiveDNSMasqLists :
       WriteDNSMasqs(list) /\ UNCHANGED <<passes, envSteps>>

LiveDNSDataController ==
    \E ready \in BOOLEAN : WriteDNSDataReady(ready) /\ UNCHANGED <<passes, envSteps>>

LiveNext ==
    \/ LiveEnsureIPSets
    \/ LiveEnsureDNSData
    \/ LiveEndPass
    \/ NewDataplaneDNSData
    \/ LiveIPSetController
    \/ LiveDNSMasqController
    \/ LiveDNSDataController

\* the NodeSets of the repeated passes: one node with a short host name,
\* with or without attachments
LiveNodeSets ==
    {spec \in NodeSetSpecs :
        Len(spec.Nodes) = 1 /\ spec.Nodes[1].HostName = <<"edpm-0">>}

\* a NodeSet not reconciled yet, with a NetConfig and a DNSMasq in the
\* namespace
LiveInit ==
    /\ nodeset \in LiveNodeSets
    /\ conditions = [t \in {NodeSetIPReservationReadyCondition,
                            NodeSetDNSDataReadyCondition} |-> NoCondition]
    /\ netConfigs = 1
    /\ ipsets = [h \in HostNamePool |-> NoIPSet]
    /\ dnsmasqs \in LiveDNSMasqLists
    /\ dnsdata = NoDNSData
    /\ dns = ZeroDNSData
    /\ pc = "idle"
    /\ ipCall = NoIPCall
    /\ dnsCall = NoDNSCall
    /\ passes = 0
    /\ envSteps = 0
    /\ builders = [w \in Builders |-> IdleBuilder]

LiveSpec ==
    /\ LiveInit
    /\ [][LiveNext]_vars
    /\ WF_vars(LiveEnsureIPSets)
    /\ WF_vars(LiveEnsureDNSData)
    /\ WF_vars(LiveEndPass)

----------------------------------------------------------------------------
(* Passes that run at the same time on one NodeSet.  Each pass works on    *)
(* its own copy of the NodeSet (its conditions are its own) and on the     *)
(* store it shares with the others; the passes interleave at the calls on  *)
(* the store.  A Create is rejected when the object exists by now, and     *)
(* any write can be rejected by the store (applied = FALSE).  builders[w]  *)
(* holds the position and the local variables of pass w; a local variable  *)
(* the pass does not read again is reset.  rejected names the object whose *)
(* write the store rejected, and conflict tells that the object was not    *)
(* the one the pass had read any more.                                     *)

\* the NodeSets of the concurrent passes: one node, which takes part in
\* the reservation
RaceNodeSets ==
    {spec \in NodeSetSpecs :
        /\ Len(spec.Nodes) = 1
        /\ spec.Nodes[1].HostName = <<"edpm-0">>
        /\ Len(EffectiveNetworks(spec, spec.Nodes[1])) > 0}

\* the conditions of the stored NodeSet, which every pass starts with in
\* its copy: none yet, or those a pass that ended Ready saved
RaceConditions ==
    {[t \in {NodeSetIPReservationReadyCondition, NodeSetDNSDataReadyCondition} |-> c] :
        c \in {NoCondition, [present |-> TRUE, status |-> "True",
                             reason |-> "Ready", severity |-> ""]}}

IdlePass == [pc |-> "idle", conds |-> <<>>, base |-> <<>>, map |-> NilMap,
             ok |-> FALSE, err |-> NilError, records |-> <<>>,
             rejected |-> "none", conflict |-> FALSE]

\* Pass w starts on a copy of the stored NodeSet, and its reserveIPs
\* reaches the CreateOrPatch of the node's IPSet, which reads the IPSet.
ReserveGetIPSet(w) ==
    /\ builders[w].pc = "idle"
    /\ builders' = [builders EXCEPT ![w] =
                      [IdlePass EXCEPT !.pc = "ipRead", !.conds = conditions,
                                       !.base = ipsets[nodeset.Nodes[1].HostName]]]
    /\ UNCHANGED <<nodeset, conditions, netConfigs, ipsets, dnsmasqs, dnsdata,
                   dns, pc, ipCall, dnsCall, passes, envSteps>>

\* The CreateOrPatch of the IPSet makes its write, if the mutate callback
\* changed the object read, and reserveIPs and EnsureIPSets go on to their
\* return: with the error when the write was rejected, through the scan of
\* the map otherwise.
ReserveWriteIPSet(w, applied) ==
    /\ builders[w].pc = "ipRead"
    /\ \E h \in {nodeset.Nodes[1].HostName} :
       \E u \in {CreateOrPatchIPSet(builders[w].base,
                                    EffectiveNetworks(nodeset, nodeset.Nodes[1]))} :
       \E done \in {\/ u.op = "unchanged"
                    \/ u.op = "created" /\ applied /\ ~ipsets[h].exists
                    \/ u.op = "updated" /\ applied} :
       \E obj \in {IF ~done \/ u.op = "unchanged" THEN ipsets[h]
                   ELSE IF u.op = "created" THEN u.obj
                   ELSE [ipsets[h] EXCEPT !.Networks = u.obj.Networks,
                                          !.owner = Parent]} :
       \E e \in {EnsureIPSetsResult(
                    [err |-> IF done THEN NilError ELSE "CreateOrPatchIPSetError",
                     allIPSets |-> IF done
                                   THEN MakeMap(Put(EmptyMap, h,
                                           IF u.op = "unchanged"
                                           THEN builders[w].base ELSE obj))
                                   ELSE NilMap,
                     conds |-> builders[w].conds],
                    IF done THEN <<h>> ELSE <<>>)} :
          /\ ipsets' = [ipsets EXCEPT ![h] = obj]
          /\ builders' = [builders EXCEPT ![w] =
                            [@ EXCEPT !.pc = IF e.ok THEN "reserved" ELSE "returned",
                                      !.conds = e.conds, !.map = e.map,
                                      !.ok = e.ok, !.err = e.err, !.base = <<>>,
                                      !.rejected = IF done THEN "none" ELSE "IPSet",
                                      !.conflict = ~done /\ ipsets[h] # builders[w].base]]
    /\ UNCHANGED <<nodeset, conditions, netConfigs, dnsmasqs, dnsdata,
                   dns, pc, ipCall, dnsCall, passes, envSteps>>

\* EnsureDNSData of pass w: createOrPatchDNSData computes the records from
\* the map EnsureIPSets returned, and its CreateOrPatch reads the DNSData.
PassGetDNSData(w) ==
    /\ builders[w].pc = "reserved"
    /\ \E built \in {BuildNodes(nodeset, builders[w].map, 1,
                         [allDNSRecords |-> <<>>,
                          ctlplaneSearchDomain |-> EmptyString,
                          CtlplaneSearchDomain |-> EmptyString,
                          Hostnames |-> EmptyMap, AllIPs |-> EmptyMap,
                          read |-> {}])} :
          builders' = [builders EXCEPT ![w].pc = "read",
                                       ![w].records = built.allDNSRecords,
                                       ![w].base = dnsdata]
    /\ UNCHANGED <<nodeset, conditions, netConfigs, ipsets, dnsmasqs, dnsdata,
                   dns, pc, ipCall, dnsCall, passes, envSteps>>

\* The CreateOrPatch of the DNSData makes its write, if the mutate callback
\* changed the object read, and EnsureDNSData goes on to its return: with
\* the error when the write was rejected, through the read-back of the
\* DNSData otherwise.
PassWriteDNSData(w, applied) ==
    /\ builders[w].pc = "read"
    /\ \E u \in {CreateOrPatchDNSDataObject(builders[w].base, builders[w].records)} :
       \E done \in {\/ u.op = "unchanged"
                    \/ u.op = "created" /\ applied /\ ~dnsdata.exists
                    \/ u.op = "updated" /\ applied} :
       \E obj \in {IF ~done \/ u.op = "unchanged" THEN dnsdata
                   ELSE IF u.op = "created" THEN u.obj
                   ELSE MergePatchDNSData(dnsdata, builders[w].base,
                                          builders[w].records)} :
       \E e \in {EnsureDNSDataResult(ZeroDNSData, builders[w].conds, nodeset,
                                     builders[w].map, dnsmasqs, obj,
                                     FALSE, ~done, FALSE)} :
          /\ dnsdata' = obj
          /\ builders' = [builders EXCEPT ![w] =
                            [@ EXCEPT !.pc = "returned", !.conds = e.conds,
                                      !.err = e.err, !.base = <<>>,
                                      !.records = <<>>,
                                      !.rejected = IF done THEN "none" ELSE "DNSData",
                                      !.conflict = ~done /\ dnsdata # builders[w].base]]
    /\ UNCHANGED <<nodeset, conditions, netConfigs, ipsets, dnsmasqs,
                   dns, pc, ipCall, dnsCall, passes, envSteps>>

\* Pass w returned to its caller.
PassReturn(w) ==
    /\ builders[w].pc = "returned"
    /\ builders' = [builders EXCEPT ![w] = IdlePass]
    /\ UNCHANGED <<nodeset, conditions, netConfigs, ipsets, dnsmasqs, dnsdata,
                   dns, pc, ipCall, dnsCall, passes, envSteps>>

\* No pass has run, no DNSData is stored yet, and the IPSet of the node is
\* not stored either, or it is and its controller has made the reservations.
RaceInit ==
    /\ nodeset \in RaceNodeSets
    /\ conditions \in RaceConditions
    /\ netConfigs = 1
    /\ \E m \in ReadyMaps(nodeset) :
          ipsets = [h \in HostNamePool |->
                      IF h \in DOMAIN m.items THEN m.items[h] ELSE NoIPSet]
    /\ dnsmasqs = <<DNSMasqReady>>
    /\ dnsdata = NoDNSData
    /\ dns = ZeroDNSData
    /\ pc = "idle"
    /\ ipCall = NoIPCall
    /\ dnsCall = NoDNSCall
    /\ passes = 0
    /\ envSteps = 0
    /\ builders = [w \in Builders |-> IdlePass]

RaceNext ==
    \/ \E w \in Builders : ReserveGetIPSet(w)
    \/ \E w \in Builders, applied \in BOOLEAN : ReserveWriteIPSet(w, applied)
    \/ \E w \in Builders : PassGetDNSData(w)
    \/ \E w \in Builders, applied \in BOOLEAN : PassWriteDNSData(w, applied)
    \/ \E w \in Builders : PassReturn(w)
    \/ \E h \in HostNamePool :
          \E status \in IPSetStatuses(h, ipsets[h].Networks) :
             IPSetController([g \in HostNamePool |->
                                IF g = h THEN status ELSE StatusOf(ipsets[g])])
    \/ \E ready \in BOOLEAN :
          DNSDataController(ready)

RaceSpec == RaceInit /\ [][RaceNext]_vars

----------------------------------------------------------------------------
(* Properties.  ipCall and dnsCall describe the calls of the pass in       *)
(* progress; conditions, dns and the store are as the last call left them. *)

IPCond == CondState(conditions[NodeSetIPReservationReadyCondition])
DNSCond == CondState(conditions[NodeSetDNSDataReadyCondition])

\* every member of the set reserveIPs returned is confirmed True
EveryMemberTrue == \A h \in DOMAIN ipCall.scanned.items :
                       ipCall.scanned.items[h].Ready = "True"

\* C1: for every non-empty set of IPSets returned by reserveIPs, whatever
\* the order of the scan, EnsureIPSets ends Ready (condition True, the full
\* map, true) if and only if every member's Ready condition is True, and
\* otherwise ends Waiting (condition False/Requested, nil map, false, nil
\* error), never Error.
C1_ReadyIffEveryMemberTrue ==
    (ipCall.called /\ ipCall.err = NilError /\ MapLen(ipCall.scanned) > 0) =>
        /\ EveryMemberTrue =>
              /\ IPCond = "Ready"
              /\ ipCall.map = ipCall.scanned
              /\ ipCall.ok
        /\ ~EveryMemberTrue =>
              /\ IPCond = "Waiting"
              /\ ipCall.map = NilMap
              /\ ~ipCall.ok
        /\ IPCond # "Error"

C1_Witness ==
    /\ ipCall.called
    /\ MapLen(ipCall.scanned) = 2
    /\ EveryMemberTrue
    /\ ipCall.ok
    /\ IPCond = "Ready"

\* C2: in a pass where a DNSMasq exists and the first one is not ready,
\* EnsureDNSData does not invoke createOrPatchDNSData: it makes no create
\* or patch of the DNSData and no read-back of it.
C2_NotReadyNeverBuilds ==
    (dnsCall.called /\ Len(dnsCall.masqs) > 0 /\ ~dnsCall.masqs[1].Ready) =>
        /\ ~dnsCall.builder
        /\ dnsCall.op = "none"
        /\ ~dnsCall.got

C2_Witness ==
    /\ dnsCall.called
    /\ Len(dnsCall.masqs) = 2
    /\ ~dnsCall.masqs[1].Ready
    /\ dnsCall.masqs[2].Ready
    /\ ~dnsCall.before.ClusterAddresses.isNil
    /\ ~dnsCall.builder

\* C3: EnsureIPSets returns a non-nil map only in the Ready outcome, with
\* every IPSet of it confirmed True, and the DNS pipeline of the pass
\* reads the reservations of an IPSet only then.
C3_ReservationsReadOnlyWhenReady ==
    /\ (ipCall.called /\ ~ipCall.map.isNil) =>
          /\ ipCall.ok
          /\ ipCall.err = NilError
          /\ IPCond = "Ready"
          /\ \A h \in DOMAIN ipCall.map.items : ipCall.map.items[h].Ready = "True"
    /\ (ipCall.called /\ (~ipCall.ok \/ ipCall.err # NilError \/ IPCond # "Ready")) =>
          ipCall.map = NilMap
    /\ (dnsCall.called /\ dnsCall.read # {}) =>
          /\ ipCall.ok
          /\ IPCond = "Ready"
          /\ \A h \in dnsCall.read : ipCall.map.items[h].Ready = "True"

C3_Witness ==
    /\ dnsCall.called
    /\ dnsCall.read # {}
    /\ dnsCall.records # <<>>

\* the DNS domains of the control-plane reservations of the map, in the
\* order in which createOrPatchDNSData meets them
RECURSIVE CtlplaneDomains(_, _, _)
CtlplaneDomains(spec, allIPSets, i) ==
    IF i > Len(spec.Nodes) THEN <<>>
    ELSE LET node == spec.Nodes[i]
             resv == IF Len(EffectiveNetworks(spec, node)) > 0
                        /\ node.HostName \in DOMAIN allIPSets.items
                     THEN allIPSets.items[node.HostName].Reservation
                     ELSE <<>>
             ctl == SelectSeq(resv, LAMBDA r : ToLower(r.Network) = "ctlplane")
         IN  [k \in 1..Len(ctl) |-> ctl[k].DNSDomain]
             \o CtlplaneDomains(spec, allIPSets, i + 1)

\* C4: after createOrPatchDNSData went through the nodes and their
\* reservations, CtlplaneSearchDomain is the dnsDomain of the first
\* control-plane reservation met; a later one does not change it.
C4_FirstCtlplaneDomainWins ==
    LET ds == CtlplaneDomains(nodeset, dnsCall.allIPSets, 1)
    IN  (dnsCall.called /\ dnsCall.builder /\ ds # <<>>) =>
            dns.CtlplaneSearchDomain = ds[1]

\* C5: whenever EnsureDNSData returns an error, the DNS condition is Error
\* at return.
C5_ErrorMarksDNSConditionError ==
    (dnsCall.called /\ dnsCall.err # NilError) => DNSCond = "Error"

\* C6: with a DNSMasq present and not ready and no store error, at the end
\* of EnsureDNSData the DNS condition is Waiting, the error is nil and
\* dns.Ready is false.
C6_NotReadyMarksWaiting ==
    (dnsCall.called /\ ~dnsCall.listFail
       /\ Len(dnsCall.masqs) > 0 /\ ~dnsCall.masqs[1].Ready) =>
        /\ DNSCond = "Waiting"
        /\ dnsCall.err = NilError
        /\ ~dns.Ready

\* the reservation feature is not applicable in the pass: EnsureIPSets
\* returned (nil, true, nil)
ReservationNotApplicable ==
    ipCall.called /\ ipCall.map = NilMap /\ ipCall.ok /\ ipCall.err = NilError

\* C7: when the reservation feature is not applicable in the pass,
\* EnsureDNSData (its DNSMasq List succeeding) skips the builder, makes no
\* create or patch of the DNSData, leaves the DNS condition not applicable
\* and returns nil, also when the DNSMasq is ready with addresses.
C7_NotApplicableSkipsBuilder ==
    (dnsCall.called /\ ~dnsCall.listFail /\ ReservationNotApplicable) =>
        /\ ~dnsCall.builder
        /\ dnsCall.op = "none"
        /\ DNSCond = "NotApplicable"
        /\ dnsCall.err = NilError

\* every node's attachment list and the template's are empty
NoAttachments ==
    /\ nodeset.TemplateNetworks = <<>>
    /\ \A i \in 1..Len(nodeset.Nodes) : nodeset.Nodes[i].Networks = <<>>

\* C8 as stated: for every NodeSet without attachments EnsureIPSets creates
\* or patches no IPSet, leaves the reservation condition removed and
\* returns (nil, true, nil).
C8_NoAttachmentsNotApplicable ==
    (ipCall.called /\ NoAttachments) =>
        /\ ipCall.upserts = <<>>
        /\ ipCall.writes = 0
        /\ IPCond = "NotApplicable"
        /\ ipCall.map = NilMap /\ ipCall.ok /\ ipCall.err = NilError

\* C8 amended: for every NodeSet without attachments EnsureIPSets creates
\* or patches no IPSet; when the NetConfig List succeeds the reservation
\* condition is removed and the result is (nil, true, nil); when it fails
\* the condition is Error and the result is (nil, false, the error).
C8_NoAttachmentsNotApplicableUnlessListFails ==
    (ipCall.called /\ NoAttachments) =>
        /\ ipCall.upserts = <<>>
        /\ ipCall.writes = 0
        /\ \A h \in HostNamePool : ~ipsets[h].exists
        /\ ~ipCall.listFail =>
              /\ IPCond = "NotApplicable"
              /\ ipCall.map = NilMap /\ ipCall.ok /\ ipCall.err = NilError
        /\ ipCall.listFail =>
              /\ IPCond = "Error"
              /\ ipCall.map = NilMap /\ ~ipCall.ok /\ ipCall.err # NilError

C8_Witness ==
    /\ ipCall.called
    /\ NoAttachments
    /\ Len(nodeset.Nodes) = 2
    /\ ipCall.listed = 1
    /\ passes = 2
    /\ IPCond = "NotApplicable"

\* C9: with no DNSMasq in the namespace, CheckDNSService reports ready with
\* nil server and cluster addresses and nil error, and at the end of
\* EnsureDNSData the DNS condition is removed and no create or patch of
\* the DNSData was made.
C9_NoDNSMasqNotApplicable ==
    (dnsCall.called /\ ~dnsCall.listFail /\ dnsCall.masqs = <<>>) =>
        /\ dns.Ready
        /\ dns.ServerAddresses.isNil
        /\ dns.ClusterAddresses.isNil
        /\ dnsCall.err = NilError
        /\ DNSCond = "NotApplicable"
        /\ ~dnsCall.builder
        /\ dnsCall.op = "none"

\* C10: whenever EnsureIPSets returns an error, the reservation condition
\* is Error at return, the returned map is nil and the returned bool false.
C10_ErrorMarksIPConditionError ==
    (ipCall.called /\ ipCall.err # NilError) =>
        /\ conditions[NodeSetIPReservationReadyCondition] =
              [present |-> TRUE, status |-> "False", reason |-> "Error",
               severity |-> "Error"]
        /\ ipCall.map = NilMap
        /\ ~ipCall.ok

C10_Witness ==
    /\ ipCall.called
    /\ ipCall.err = "CreateOrPatchIPSetError"
    /\ Len(ipCall.upserts) = 2
    /\ ipCall.writes = 1
    /\ IPCond = "Error"

----------------------------------------------------------------------------
(* Store calls of a pass *)

\* the index in instance.Spec.Nodes of the node with this host name
NodeIndex(hostName) ==
    CHOOSE i \in 1..Len(nodeset.Nodes) : nodeset.Nodes[i].HostName = hostName

\* the node takes part in the reservation: its effective list is not empty
Participates(i) == Len(EffectiveNetworks(nodeset, nodeset.Nodes[i])) > 0

\* the stored IPSet is what reserveIPs asks for the node
AsDesired(ipSet, i) ==
    /\ ipSet.exists
    /\ ipSet.Networks = EffectiveNetworks(nodeset, nodeset.Nodes[i])
    /\ ipSet.owner = Parent

\* C11: when the CreateOrPatch of the k-th node's IPSet fails in
\* reserveIPs, the IPSet of no later node is created or patched in the
\* pass, the failed one is not written, the IPSets of the participating
\* nodes before k are as the pass wrote them, and the scan of EnsureIPSets
\* does not run.
C11_FailFastNoRollback ==
    (ipCall.called /\ ipCall.err = "CreateOrPatchIPSetError") =>
        LET k == NodeIndex(ipCall.upserts[Len(ipCall.upserts)])
        IN  /\ \A i \in 1..Len(nodeset.Nodes) :
                  LET h == nodeset.Nodes[i].HostName
                  IN  /\ i >= k => ipsets[h] = ipCall.before[h]
                      /\ i > k => h \notin Range(ipCall.upserts)
                      /\ (i < k /\ Participates(i)) =>
                            /\ h \in Range(ipCall.upserts)
                            /\ AsDesired(ipsets[h], i)
            /\ ~ipCall.scan
            /\ IPCond = "Error"

C11_Witness ==
    /\ ipCall.called
    /\ ipCall.err = "CreateOrPatchIPSetError"
    /\ Len(nodeset.Nodes) = 2
    /\ NodeIndex(ipCall.upserts[Len(ipCall.upserts)]) = 2
    /\ ~ipCall.before[nodeset.Nodes[1].HostName].exists
    /\ ipsets[nodeset.Nodes[1].HostName].exists

\* no store call is made twice in the invocation
NoCallRepeated(calls) ==
    \A i, j \in DOMAIN calls :
        (i # j) => <<calls[i].verb, calls[i].kind, calls[i].name>>
                   # <<calls[j].verb, calls[j].kind, calls[j].name>>

\* the error returned is the error of the last store call made, and no
\* call before it failed
ErrorOfLastCall(calls, err) ==
    /\ \A i \in DOMAIN calls : i < Len(calls) => calls[i].err = NilError
    /\ IF calls = <<>> THEN err = NilError ELSE err = calls[Len(calls)].err

\* C12: within one invocation of EnsureIPSets or EnsureDNSData every store
\* call is made at most once, and the error returned is exactly the error
\* of the store call that failed (nil when none failed).
C12_NoRetryErrorUnaltered ==
    /\ ipCall.called =>
          /\ NoCallRepeated(ipCall.calls)
          /\ ErrorOfLastCall(ipCall.calls, ipCall.err)
    /\ dnsCall.called =>
          /\ NoCallRepeated(dnsCall.calls)
          /\ ErrorOfLastCall(dnsCall.calls, dnsCall.err)

C12_Witness ==
    /\ ipCall.called
    /\ Len(ipCall.calls) = 3
    /\ ipCall.err = NilError
    /\ dnsCall.called
    /\ Len(dnsCall.calls) = 3
    /\ dnsCall.err = "GetDNSDataError"

AnyCallFailed(calls) == \E i \in DOMAIN calls : calls[i].err # NilError

\* C13: EnsureIPSets returns a nil error whenever it leaves the
\* reservation condition Waiting or not applicable; EnsureDNSData returns
\* a nil error when the DNSMasq List succeeds and finds no DNSMasq or a
\* first DNSMasq that is not ready, and when the DNSData read back is not
\* ready; either returns an error only when one of its store calls failed.
C13_WaitingNeverAnError ==
    /\ ipCall.called =>
          /\ IPCond \in {"Waiting", "NotApplicable"} => ipCall.err = NilError
          /\ ipCall.err # NilError => AnyCallFailed(ipCall.calls)
    /\ dnsCall.called =>
          /\ (~dnsCall.listFail /\ ~dnsCall.builder) => dnsCall.err = NilError
          /\ (dnsCall.got /\ ~AnyCallFailed(dnsCall.calls) /\ ~dnsdata.Ready) =>
                /\ dnsCall.err = NilError
                /\ DNSCond = "Waiting"
          /\ dnsCall.err # NilError => AnyCallFailed(dnsCall.calls)

C13_Witness ==
    /\ ipCall.called
    /\ IPCond = "Waiting"
    /\ dnsCall.called
    /\ Len(dnsCall.masqs) > 0
    /\ ~dnsCall.masqs[1].Ready
    /\ dnsCall.err = NilError

\* C14: a CreateOrPatch of reserveIPs on an IPSet that is stored with the
\* desired attachments and the parent as owner writes nothing; a pass that
\* finds every IPSet so makes no write.
C14_UpsertIdempotent ==
    ipCall.called =>
        /\ \A c \in DOMAIN ipCall.calls :
              LET call == ipCall.calls[c]
              IN  (call.kind = "IPSet" /\ call.err = NilError
                     /\ AsDesired(ipCall.before[call.name], NodeIndex(call.name))) =>
                      /\ call.op = "unchanged"
                      /\ ipsets[call.name] = ipCall.before[call.name]
        /\ (\A c \in DOMAIN ipCall.calls :
                ipCall.calls[c].kind = "IPSet" =>
                    AsDesired(ipCall.before[ipCall.calls[c].name],
                              NodeIndex(ipCall.calls[c].name))) =>
              ipCall.writes = 0

C14_Witness ==
    /\ ipCall.called
    /\ passes = 2
    /\ Len(ipCall.upserts) = 2
    /\ ipCall.err = NilError
    /\ ipCall.writes = 0
    /\ \A c \in DOMAIN ipCall.calls :
          ipCall.calls[c].kind = "IPSet" => ipCall.calls[c].op = "unchanged"

----------------------------------------------------------------------------
(* The receiver *)

\* C16: the outcome of EnsureDNSData (the receiver's fields, the
\* conditions, the stored DNSData and the error) is the outcome of the
\* same call on a new receiver: it does not depend on what an earlier call
\* left in the receiver.
C16_OutcomeIndependentOfReceiver ==
    [][(pc = "reserved" /\ pc' = "done") =>
          \E patchFail, getFail \in BOOLEAN :
             \E f \in {EnsureDNSDataResult(ZeroDNSData, conditions, nodeset,
                                            ipCall.map, dnsmasqs, dnsdata,
                                            dnsCall'.listFail, patchFail, getFail)} :
                /\ dns' = f.dns
                /\ conditions' = f.conds
                /\ dnsdata' = f.dnsdata
                /\ dnsCall'.err = f.err]_vars

\* the DNS service of the pass is ready with cluster addresses and the
\* CreateOrPatch of the DNSData succeeded
PersistedThisPass ==
    /\ dnsCall.called
    /\ ~dnsCall.listFail
    /\ Len(dnsCall.masqs) > 0
    /\ dnsCall.masqs[1].Ready
    /\ ~dnsCall.masqs[1].DNSClusterAddresses.isNil
    /\ dnsCall.op \in {"created", "updated", "unchanged"}

\* C17 as stated: in a pass where the DNS service is ready with addresses
\* and the CreateOrPatch of the DNSData succeeds, the DNS condition is
\* Ready at the end of EnsureDNSData.
C17_ReadyWhenPersisted == PersistedThisPass => DNSCond = "Ready"

\* C17 amended: in such a pass the DNS condition at the end of
\* EnsureDNSData is Ready when the DNSData read back is ready, Waiting
\* (nil error, dns.Ready false) when it is not ready, and Error when the
\* read-back fails.
C17_ReadyWhenPersistedAndDNSDataReady ==
    PersistedThisPass =>
        LET get == dnsCall.calls[Len(dnsCall.calls)]
        IN  /\ get.verb = "Get"
            /\ (get.err = NilError /\ dnsdata.Ready) =>
                  /\ DNSCond = "Ready"
                  /\ dnsCall.err = NilError
                  /\ dns.Ready
            /\ (get.err = NilError /\ ~dnsdata.Ready) =>
                  /\ DNSCond = "Waiting"
                  /\ dnsCall.err = NilError
                  /\ ~dns.Ready
            /\ get.err # NilError =>
                  /\ DNSCond = "Error"
                  /\ dnsCall.err = get.err

C17_Witness ==
    /\ PersistedThisPass
    /\ dnsdata.Ready
    /\ DNSCond = "Ready"
    /\ dns.Ready

----------------------------------------------------------------------------
(* The records of the builder *)

\* the reservations createOrPatchDNSData meets, with the host name of
\* their node, in the order in which it meets them
RECURSIVE ReservationsMet(_, _, _)
ReservationsMet(spec, allIPSets, i) ==
    IF i > Len(spec.Nodes) THEN <<>>
    ELSE LET node == spec.Nodes[i]
             resv == IF Len(EffectiveNetworks(spec, node)) > 0
                        /\ node.HostName \in DOMAIN allIPSets.items
                     THEN allIPSets.items[node.HostName].Reservation
                     ELSE <<>>
         IN  [k \in 1..Len(resv) |-> [hostName |-> node.HostName, res |-> resv[k]]]
             \o ReservationsMet(spec, allIPSets, i + 1)

Met == ReservationsMet(nodeset, dnsCall.allIPSets, 1)

\* the lower-cased network name of the reservation
LowerNet(res) ==
    IF res.Network \in {"ctlplane", "CtlPlane"} THEN "ctlplane" ELSE res.Network

\* the alias the receiver holds for the node and the network of met[k]
AliasOf(met, k) ==
    IF /\ ~dns.Hostnames.isNil
       /\ met[k].hostName \in DOMAIN dns.Hostnames.items
       /\ LowerNet(met[k].res) \in DOMAIN dns.Hostnames.items[met[k].hostName]
    THEN dns.Hostnames.items[met[k].hostName][LowerNet(met[k].res)]
    ELSE <<>>

\* the record of met[k] for a node with a short host name: the address and
\* the one alias hostName.dnsDomain; the search domain when it is the only
\* control-plane reservation
ShortNameRecord(met, k) ==
    /\ dnsCall.records[k].IP = met[k].res.Address
    /\ dnsCall.records[k].Hostnames = << met[k].hostName \o met[k].res.DNSDomain >>
    /\ (LowerNet(met[k].res) = "ctlplane"
          /\ Len(CtlplaneDomains(nodeset, dnsCall.allIPSets, 1)) = 1) =>
            dns.CtlplaneSearchDomain = met[k].res.DNSDomain

\* C18 as stated: for a node with a short host name and each of its
\* reservations the builder emits a record with the address and the one
\* alias shortName.dnsDomain, and holds that alias as the node's alias for
\* the network of the reservation.
C18_ShortNameAlias ==
    (dnsCall.called /\ dnsCall.builder) =>
        /\ Len(dnsCall.records) = Len(Met)
        /\ \A k \in DOMAIN Met :
              Len(Met[k].hostName) = 1 =>
                  /\ ShortNameRecord(Met, k)
                  /\ AliasOf(Met, k) = Met[k].hostName \o Met[k].res.DNSDomain

\* C18 amended: the record is as stated; the alias held for the network is
\* keyed by the lower-cased network name, and when several reservations
\* of the node are on networks with the same lower-cased name it is the
\* alias of the last of them.
C18_ShortNameAliasLastOfNetwork ==
    (dnsCall.called /\ dnsCall.builder) =>
        /\ Len(dnsCall.records) = Len(Met)
        /\ \A k \in DOMAIN Met :
              Len(Met[k].hostName) = 1 =>
                  /\ ShortNameRecord(Met, k)
                  /\ (\A j \in DOMAIN Met :
                         (j > k /\ Met[j].hostName = Met[k].hostName) =>
                             LowerNet(Met[j].res) # LowerNet(Met[k].res)) =>
                        AliasOf(Met, k) = Met[k].hostName \o Met[k].res.DNSDomain

C18_Witness ==
    /\ dnsCall.called
    /\ dnsCall.builder
    /\ \E k \in DOMAIN Met :
          /\ k < Len(Met)
          /\ Len(Met[k].hostName) = 1
          /\ Met[k + 1].hostName = Met[k].hostName
          /\ Met[k + 1].res.DNSDomain # Met[k].res.DNSDomain
          /\ AliasOf(Met, k) = Met[k].hostName \o Met[k + 1].res.DNSDomain
          /\ dnsCall.records[k].Hostnames = << Met[k].hostName \o Met[k].res.DNSDomain >>

\* no alias appears twice in the list
NoDuplicates(names) ==
    \A i, j \in DOMAIN names : (i # j) => names[i] # names[j]

\* C19: for a node whose host name is fully qualified and each of its
\* control-plane reservations, the host name is an alias of the record and
\* the node's alias for the control-plane network; when the host name is
\* the derived name shortName.dnsDomain the aliases are exactly the host
\* name; no record holds an alias twice.
C19_FQDNHostNameAlias ==
    (dnsCall.called /\ dnsCall.builder) =>
        /\ Len(dnsCall.records) = Len(Met)
        /\ \A k \in DOMAIN Met :
              /\ NoDuplicates(dnsCall.records[k].Hostnames)
              /\ (Len(Met[k].hostName) > 1 /\ LowerNet(Met[k].res) = "ctlplane") =>
                    /\ Met[k].hostName \in Range(dnsCall.records[k].Hostnames)
                    /\ AliasOf(Met, k) = Met[k].hostName
                    /\ (<<Met[k].hostName[1]>> \o Met[k].res.DNSDomain = Met[k].hostName) =>
                          dnsCall.records[k].Hostnames = <<Met[k].hostName>>

C19_Witness ==
    /\ dnsCall.called
    /\ dnsCall.builder
    /\ \E k \in DOMAIN Met :
          /\ Len(Met[k].hostName) > 1
          /\ LowerNet(Met[k].res) = "ctlplane"
          /\ dnsCall.records[k].Hostnames = <<Met[k].hostName>>
    /\ \E k \in DOMAIN Met :
          /\ Len(Met[k].hostName) > 1
          /\ LowerNet(Met[k].res) = "ctlplane"
          /\ Len(dnsCall.records[k].Hostnames) = 2

\* C20: after reserveIPs returned without error with a NetConfig present,
\* every node with a non-empty effective attachment list has the IPSet of
\* its host name, with that list as attachments, in the store and in the
\* returned map; a node with an empty effective list has no IPSet and no
\* map entry; the map has no other key.
C20_OneIPSetPerParticipatingNode ==
    (ipCall.called /\ ipCall.err = NilError /\ ipCall.listed > 0) =>
        /\ \A i \in 1..Len(nodeset.Nodes) :
              LET h == nodeset.Nodes[i].HostName
                  nets == IF nodeset.Nodes[i].Networks # <<>>
                          THEN nodeset.Nodes[i].Networks
                          ELSE nodeset.TemplateNetworks
              IN  IF nets # <<>>
                  THEN /\ ipsets[h].exists
                       /\ ipsets[h].Networks = nets
                       /\ ipsets[h].owner = Parent
                       /\ h \in DOMAIN ipCall.scanned.items
                       /\ ipCall.scanned.items[h] = ipsets[h]
                  ELSE /\ ~ipsets[h].exists
                       /\ h \notin DOMAIN ipCall.scanned.items
        /\ DOMAIN ipCall.scanned.items \subseteq
              {nodeset.Nodes[i].HostName : i \in 1..Len(nodeset.Nodes)}
        /\ \A h \in HostNamePool :
              ipsets[h].exists => h \in DOMAIN ipCall.scanned.items

C20_Witness ==
    /\ ipCall.called
    /\ ipCall.err = NilError
    /\ ipCall.listed > 0
    /\ Len(nodeset.Nodes) = 2
    /\ nodeset.Nodes[1].Networks = <<>>
    /\ nodeset.Nodes[2].Networks # <<>>
    /\ nodeset.TemplateNetworks = <<>>
    /\ Cardinality(DOMAIN ipCall.scanned.items) = 1

----------------------------------------------------------------------------
(* Concurrent calls of the builder *)

\* the complete record lists a createOrPatchDNSData call on the NodeSet
\* computes, one for each map it can be given
PassRecords ==
    {BuildNodes(nodeset, allIPSets, 1,
                [allDNSRecords |-> <<>>, ctlplaneSearchDomain |-> EmptyString,
                 CtlplaneSearchDomain |-> EmptyString, Hostnames |-> EmptyMap,
                 AllIPs |-> EmptyMap, read |-> {}]).allDNSRecords :
        allIPSets \in ReadyMaps(nodeset)}

\* C15: in every state of interleaved createOrPatchDNSData calls on one
\* NodeSet, also after calls that failed or were cancelled, the host list
\* of the DNSData is the empty list of the object not yet created or the
\* complete record list of one call: never a part of a list nor a mix of
\* the lists of two calls.
C15_HostsOfOnePass ==
    IF dnsdata.exists THEN dnsdata.Hosts \in PassRecords ELSE dnsdata.Hosts = <<>>

C15_Witness ==
    /\ dnsdata.exists
    /\ dnsdata.Hosts # <<>>
    /\ \E w \in Builders :
          /\ builders[w].pc = "read"
          /\ builders[w].base.exists
          /\ builders[w].base.Hosts # dnsdata.Hosts
          /\ builders[w].records # builders[w].base.Hosts
          /\ builders[w].records # dnsdata.Hosts

----------------------------------------------------------------------------
(* Features that do not apply *)

\* C28: in a pass whose NetConfig List succeeds and finds no NetConfig,
\* reserveIPs makes no CreateOrPatch of an IPSet and leaves every IPSet as
\* it was, whatever the attachments of the nodes and of the template; the
\* reservation condition is removed and EnsureIPSets returns (nil, true,
\* nil).  An IPSet is created only in a pass that listed a NetConfig.
C28_NoNetConfigNoIPSet ==
    ipCall.called =>
        /\ (~ipCall.listFail /\ netConfigs = 0) =>
              /\ ipCall.upserts = <<>>
              /\ ipCall.writes = 0
              /\ Len(ipCall.calls) = 1
              /\ ipsets = ipCall.before
              /\ ~conditions[NodeSetIPReservationReadyCondition].present
              /\ ipCall.map = NilMap /\ ipCall.ok /\ ipCall.err = NilError
        /\ \A h \in HostNamePool :
              (ipsets[h].exists /\ ~ipCall.before[h].exists) => ipCall.listed > 0

C28_Witness ==
    /\ ipCall.called
    /\ ~ipCall.listFail
    /\ netConfigs = 0
    /\ passes = 2
    /\ \E i \in 1..Len(nodeset.Nodes) :
          /\ Participates(i)
          /\ ipCall.before[nodeset.Nodes[i].HostName].exists
    /\ IPCond = "NotApplicable"
    /\ ipCall.map = NilMap /\ ipCall.ok

\* C29: when the first DNSMasq is ready and its cluster-address list is
\* nil, also with a server-address list that is not nil, EnsureDNSData
\* removes the DNS condition, does not run the builder, makes no create or
\* patch of the DNSData, returns nil and leaves dns.Ready true.
C29_NilClusterAddressesNotApplicable ==
    (dnsCall.called /\ ~dnsCall.listFail /\ Len(dnsCall.masqs) > 0
       /\ dnsCall.masqs[1].Ready /\ dnsCall.masqs[1].DNSClusterAddresses.isNil) =>
        /\ ~conditions[NodeSetDNSDataReadyCondition].present
        /\ ~dnsCall.builder
        /\ dnsCall.op = "none"
        /\ dnsCall.calls = <<StoreCall("List", "DNSMasq", <<>>, "listed", NilError)>>
        /\ dnsdata.Hosts = dnsCall.hostsBefore
        /\ dnsCall.err = NilError
        /\ dns.Ready
        /\ dns.ClusterAddresses.isNil
        /\ dns.ServerAddresses = dnsCall.masqs[1].DNSAddresses

C29_Witness ==
    /\ dnsCall.called
    /\ ~dnsCall.listFail
    /\ dnsCall.masqs = <<DNSMasqNoClusterAddresses>>
    /\ ~dnsCall.masqs[1].DNSAddresses.isNil
    /\ ~dnsCall.before.ClusterAddresses.isNil
    /\ dnsdata.exists
    /\ DNSCond = "NotApplicable"
    /\ dns.Ready

\* C30: every host record that createOrPatchDNSData persists in the
\* DNSData carries at least one alias, whatever the host name, the network
\* and the dnsDomain of the reservation.
C30_EveryRecordHasAlias ==
    (dnsCall.called /\ dnsCall.builder
       /\ dnsCall.op \in {"created", "updated", "unchanged"}) =>
        /\ dnsdata.Hosts = dnsCall.records
        /\ \A k \in DOMAIN dnsdata.Hosts : dnsdata.Hosts[k].Hostnames # <<>>

----------------------------------------------------------------------------
(* The two variants of EnsureIPSets *)

\* every member of the set has a Ready condition that is True or False
AllExplicit(m) == \A h \in DOMAIN m.items : m.items[h].Ready \in {"True", "False"}

\* every member is True or unset, and one at least is unset
UnsetAndNoneFalse(m) ==
    /\ \A h \in DOMAIN m.items : m.items[h].Ready \in {"True", "Unset"}
    /\ \E h \in DOMAIN m.items : m.items[h].Ready = "Unset"

\* the two outcomes are the same returned values and the same conditions
SameOutcome(a, b) ==
    a.map = b.map /\ a.ok = b.ok /\ a.err = b.err /\ a.conds = b.conds

\* C26: on the outcome of reserveIPs of the pass, whatever the order of the
\* scan, EnsureIPSets and its historical variant return the same values and
\* mark the same condition when every member's Ready condition is True or
\* False; they differ exactly when every member is True or unset and one at
\* least is unset, and then the historical variant ends Ready with the map
\* and EnsureIPSets ends Waiting with a nil map.
C26_VariantsDifferOnUnsetOnly ==
    ipCall.called =>
        \A order \in Orders(DOMAIN ipCall.scanned.items) :
          \A r \in {[err |-> ipCall.err, allIPSets |-> ipCall.scanned,
                     conds |-> conditions]} :
            \A a \in {EnsureIPSetsResult(r, order)},
               b \in {HistoricalEnsureIPSetsResult(r, order)} :
                /\ a.map = ipCall.map /\ a.ok = ipCall.ok /\ a.err = ipCall.err
                /\ AllExplicit(ipCall.scanned) => SameOutcome(a, b)
                /\ ~SameOutcome(a, b) <=>
                      (ipCall.err = NilError /\ UnsetAndNoneFalse(ipCall.scanned))
                /\ ~SameOutcome(a, b) =>
                      /\ b.map = ipCall.scanned /\ b.ok /\ b.err = NilError
                      /\ CondState(b.conds[NodeSetIPReservationReadyCondition]) = "Ready"
                      /\ a.map = NilMap /\ ~a.ok /\ a.err = NilError
                      /\ CondState(a.conds[NodeSetIPReservationReadyCondition]) = "Waiting"

C26_Witness ==
    /\ ipCall.called
    /\ ipCall.err = NilError
    /\ MapLen(ipCall.scanned) = 2
    /\ \E h \in DOMAIN ipCall.scanned.items : ipCall.scanned.items[h].Ready = "True"
    /\ \E h \in DOMAIN ipCall.scanned.items : ipCall.scanned.items[h].Ready = "Unset"
    /\ IPCond = "Waiting"
    /\ ipCall.map = NilMap

----------------------------------------------------------------------------
(* A pass run again *)

\* a pass run on the NodeSet and the store as they are, with receiver d
\* and no failing store call, writes nothing and ends with the conditions
\* and the values of the pass just made
SecondPassSame(d) ==
    \A r \in {reserveIPs(nodeset, conditions, ipsets, netConfigs, FALSE, 0)} :
      \A order \in Orders(DOMAIN r.allIPSets.items) :
        \A e \in {EnsureIPSetsResult(r, order)} :
          \A f \in {EnsureDNSDataResult(d, e.conds, nodeset, e.map, dnsmasqs,
                                        dnsdata, FALSE, FALSE, FALSE)} :
             /\ r.writes = 0
             /\ r.store = ipsets
             /\ f.op \in {"none", "unchanged"}
             /\ f.dnsdata = dnsdata
             /\ e.map = ipCall.map /\ e.ok = ipCall.ok /\ e.err = NilError
             /\ f.err = NilError
             /\ f.conds = conditions

\* C25: after a pass in which EnsureIPSets and EnsureDNSData returned no
\* error, a second pass on the unchanged NodeSet and store, on the receiver
\* the caller kept or on a new one, makes no store write and ends with the
\* same reservation and DNS conditions and the same returned values.
C25_PassIdempotent ==
    (pc = "done" /\ ipCall.err = NilError /\ dnsCall.err = NilError) =>
        \A d \in {dns, ZeroDNSData} : SecondPassSame(d)

----------------------------------------------------------------------------
(* Passes after the NodeSet or a dependency changed *)

\* a node with this host name takes part in the reservation
ParticipatesHost(h) ==
    \E i \in 1..Len(nodeset.Nodes) :
        nodeset.Nodes[i].HostName = h /\ Participates(i)

\* C21: in every pass, also one run after a node was removed from the
\* NodeSet or lost all its attachments, every IPSet that was in the store
\* when the pass started is still there after EnsureIPSets and after
\* EnsureDNSData, and the IPSet of a host that does not take part in the
\* reservation any more is left as it was, spec and status.
C21_NeverDeletesIPSet ==
    ipCall.called =>
        \A h \in HostNamePool :
            ipCall.before[h].exists =>
                /\ ipsets[h].exists
                /\ StatusOf(ipsets[h]) = StatusOf(ipCall.before[h])
                /\ ~ParticipatesHost(h) =>
                      /\ ipsets[h] = ipCall.before[h]
                      /\ h \notin Range(ipCall.upserts)

C21_Witness ==
    /\ ipCall.called
    /\ dnsCall.called
    /\ ipCall.err = NilError
    /\ ipCall.upserts # <<>>
    /\ \E h \in HostNamePool :
          /\ ipCall.before[h].exists
          /\ ~ParticipatesHost(h)
          /\ ipsets[h] = ipCall.before[h]
          /\ ipsets[h].Ready = "True"

\* C22: after every pass in which the CreateOrPatch of createOrPatchDNSData
\* succeeds, the host list of the DNSData is exactly the record list the
\* pass derived from the NodeSet and the reservation map as they are: one
\* record for each reservation met, in that order.  A record written by an
\* earlier pass is in the list only if the pass derived it again.
C22_HostsRecomputedEveryPass ==
    (dnsCall.called /\ dnsCall.builder
       /\ dnsCall.op \in {"created", "updated", "unchanged"}) =>
        /\ dnsdata.exists
        /\ dnsdata.Hosts = dnsCall.records
        /\ Len(dnsdata.Hosts) = Len(Met)
        /\ \A k \in DOMAIN Met : dnsdata.Hosts[k].IP = Met[k].res.Address
        /\ \A k \in DOMAIN dnsCall.hostsBefore :
              dnsCall.hostsBefore[k] \in Range(dnsdata.Hosts) =>
                  \E j \in DOMAIN Met :
                      dnsCall.hostsBefore[k].IP = Met[j].res.Address

C22_Witness ==
    /\ dnsCall.called
    /\ dnsCall.builder
    /\ dnsCall.op = "updated"
    /\ Len(nodeset.Nodes) = 1
    /\ dnsdata.Hosts # <<>>
    /\ Len(dnsdata.Hosts) < Len(dnsCall.hostsBefore)
    /\ \E k \in DOMAIN dnsCall.hostsBefore :
          dnsCall.hostsBefore[k] \notin Range(dnsdata.Hosts)

\* C23: a condition that an earlier pass left Ready does not stay Ready in
\* a pass that finds a dependency not ready or in which a store call
\* fails.  When EnsureIPSets returns an error the reservation condition is
\* Error, and when it scans an IPSet that is not confirmed True it is
\* Waiting; when EnsureDNSData returns an error the DNS condition is Error,
\* and when the first DNSMasq or the DNSData read back is not ready it is
\* Waiting.
C23_ConditionsNotLatched ==
    [][/\ (pc = "idle" /\ pc' = "reserved" /\ IPCond = "Ready") =>
             /\ ipCall'.err # NilError => IPCond' = "Error"
             /\ (ipCall'.err = NilError
                   /\ \E h \in DOMAIN ipCall'.scanned.items :
                         ipCall'.scanned.items[h].Ready # "True") =>
                   IPCond' = "Waiting"
       /\ (pc = "reserved" /\ pc' = "done" /\ DNSCond = "Ready") =>
             /\ dnsCall'.err # NilError => DNSCond' = "Error"
             /\ (dnsCall'.err = NilError /\ Len(dnsmasqs) > 0 /\ ~dnsmasqs[1].Ready) =>
                   DNSCond' = "Waiting"
             /\ (dnsCall'.err = NilError /\ dnsCall'.got /\ ~dnsdata'.Ready) =>
                   DNSCond' = "Waiting"]_vars

----------------------------------------------------------------------------
(* Convergence of repeated passes *)

\* no store call of the pass in progress failed
NoStoreFailure == ~AnyCallFailed(ipCall.calls) /\ ~AnyCallFailed(dnsCall.calls)

\* a NetConfig exists, the IPSet of every participating node is confirmed
\* True once it is created, the first DNSMasq is ready with cluster
\* addresses, the DNSData is ready once it is created, and no store call
\* fails
Converged ==
    /\ netConfigs > 0
    /\ NoStoreFailure
    /\ \A h \in HostNamePool :
          (ParticipatesHost(h) /\ ipsets[h].exists) => ipsets[h].Ready = "True"
    /\ Len(dnsmasqs) > 0
    /\ dnsmasqs[1].Ready
    /\ ~dnsmasqs[1].DNSClusterAddresses.isNil
    /\ dnsdata.exists => dnsdata.Ready

BothReady == IPCond = "Ready" /\ DNSCond = "Ready"

\* C27 as stated: under fair passes, if from some point on a NetConfig
\* exists, no store call fails, the IPSets of the participating nodes are
\* confirmed True, the DNS service is ready with cluster addresses and the
\* DNSData is ready, then from some point on the reservation condition and
\* the DNS condition are both Ready.
C27_Converges == <>[]Converged => <>[]BothReady

\* C27 amended: the same for a NodeSet in which one node at least takes
\* part in the reservation; in a NodeSet without such a node the DNS
\* condition gets Ready and stays Ready and the reservation condition
\* stays removed.
C27_ConvergesWhenANodeParticipates ==
    <>[]Converged =>
        <>[](/\ DNSCond = "Ready"
             /\ IF \E h \in HostNamePool : ParticipatesHost(h)
                THEN IPCond = "Ready"
                ELSE IPCond = "NotApplicable")

C27_Witness ==
    /\ pc = "done"
    /\ Converged
    /\ BothReady
    /\ dnsCall.op = "unchanged"
    /\ dnsdata.Hosts # <<>>
    /\ \E h \in HostNamePool : ParticipatesHost(h) /\ ipsets[h].Ready = "True"

----------------------------------------------------------------------------
(* Passes that run at the same time *)

\* C24: of two passes that run at the same time on one NodeSet, the pass
\* whose create or patch of the IPSet or of the DNSData the store rejected
\* returns the error and has marked the condition of that object Error, not
\* Ready; after a rejected IPSet write it returns no map, the bool false,
\* and does not go on to the DNSData.
C24_RejectedWriteIsFailure ==
    \A w \in Builders :
       /\ builders[w].rejected = "IPSet" =>
             /\ builders[w].pc = "returned"
             /\ builders[w].err = "CreateOrPatchIPSetError"
             /\ builders[w].conds[NodeSetIPReservationReadyCondition] =
                   [present |-> TRUE, status |-> "False", reason |-> "Error",
                    severity |-> "Error"]
             /\ builders[w].map = NilMap
             /\ ~builders[w].ok
       /\ builders[w].rejected = "DNSData" =>
             /\ builders[w].pc = "returned"
             /\ builders[w].err = "CreateOrPatchDNSDataError"
             /\ builders[w].conds[NodeSetDNSDataReadyCondition] =
                   [present |-> TRUE, status |-> "False", reason |-> "Error",
                    severity |-> "Error"]

\* a pass whose reservation is Ready lost the creation of the DNSData to the
\* other pass, which created it after this pass had read that there is none
C24_Witness ==
    \E w \in Builders :
       /\ builders[w].rejected = "DNSData"
       /\ builders[w].conflict
       /\ builders[w].conds[NodeSetIPReservationReadyCondition].status = "True"
       /\ ~builders[w].map.isNil
       /\ dnsdata.exists

====
